---------------------------- MODULE Spec2Model ----------------------------
(***************************************************************************)
(* BaseContentProvider (src/src/services/content/BaseContentProvider.ts):  *)
(* the queue-driven batch processor of one content provider instance, on   *)
(* a single-threaded event loop.  One action per external call (queueFiles,*)
(* startProcessing, stopProcessing, onSettingsChanged, waitForIdle) and    *)
(* per event-loop task (debounce timer, next-batch tick, retry timer, the  *)
(* continuations of a batch after each of its awaits).  An action is one   *)
(* macrotask together with the microtasks it triggers.                     *)
(***************************************************************************)
EXTENDS Integers, Sequences, FiniteSets, TLC

VARIABLES
    this,          \* the fields of the provider object, and debounceTimeouts,
                   \* retryTimeouts: the timeouts of startProcessing and of
                   \* scheduleRetryTimer the event loop still holds,
                   \* exhausted: the paths last reported as dropped,
                   \* debouncedSinceStop: a debounce callback has run since the
                   \* last stopProcessing (TRUE before the first stop),
                   \* fileMtime: file.stat.mtime of the files of this.app.vault,
                   \* dbMtime: the provider's processed mtime in the record
                   \* db.getFile returns (NoFileData without a record)
    batches,       \* the processNextBatch invocations in flight (their locals)
    pendingTicks,  \* next-batch callbacks handed to requestAnimationFrame/setTimeout(0)
    waiter         \* one observed waitForIdle() call

vars == <<this, batches, pendingTicks, waiter>>

----------------------------------------------------------------------------
(* Bounds of the model *)

\* number of vault files
MaxFiles == 2
\* stopProcessing calls in a behaviour
MaxSession == 2
\* stopProcessing calls in a behaviour of SpecIdle
MaxIdleSession == 1
\* processNextBatch invocations in flight at once (stale ones included)
MaxInFlight == 2
\* distinct settings snapshots
MaxSettings == 1
\* consecutive failures of one path (RETRY_MAX_ATTEMPTS bounds them in the code)
MaxFailuresInRow == 1
\* paths with a retry entry at once
MaxRetryEntries == 1
\* files in one queueFiles call
MaxCallLen == 2
\* next-batch callbacks pending at once
MaxPendingTicks == 1
\* consecutive failures of one path in SpecRetry (one more than RETRY_MAX_ATTEMPTS)
MaxRetryFailuresInRow == 6
\* paths with a retry entry at once in SpecRetry
MaxRetryPaths == 2
\* QUEUE_BATCH_SIZE in SpecChunks: a batch takes both files
ChunkBatchSize == 2
\* stopProcessing calls in a behaviour of SpecLive
MaxLiveSession == 1
\* stopProcessing calls in a behaviour of SpecCancel
MaxCancelSession == 1
\* number of vault files in SpecFifo: one more than a batch takes
MaxFifoFiles == 3
\* files in one queueFiles call in SpecFifo
MaxFifoCallLen == 3
\* the latest modification time of a file (the first is 1)
MaxMtime == 2
\* distinct settings snapshots in SpecSettings
MaxChangedSettings == 2

(* QUEUE_BATCH_SIZE and PARALLEL_LIMIT are readonly fields of the provider,  *)
(* 100 and 10 in the source.  The model scales them down, so that a queue of *)
(* MaxFiles files takes several batches.                                     *)
SmallBatchSize == 1
SmallParallelLimit == 1

\* Date.now().  Timestamps are kept relative to the current instant: the clock
\* reads 0 in every state and ClockAdvances moves every stored timestamp closer
DateNow == 0

\* Number.MAX_SAFE_INTEGER in the source; any value above every timestamp
RETRY_UNSCHEDULED_AT == 2147483647
RETRY_INITIAL_DELAY_MS == 1000
RETRY_MAX_DELAY_MS == 30000
RETRY_MAX_ATTEMPTS == 5

\* db.getFile(path) when the database has no record of the file
NoFileData == -1

Paths == 1..MaxFiles
\* the files of SpecFifo
FifoPaths == 1..MaxFifoFiles
\* every file some specification has in its vault
VaultPaths == Paths \cup FifoPaths
Settings == 1..MaxSettings
Slots == 1..MaxInFlight

----------------------------------------------------------------------------
(* Helpers on sequences and ordered maps *)

Range(s) == {s[i] : i \in 1..Len(s)}

Min(a, b) == IF a < b THEN a ELSE b

Max(a, b) == IF a > b THEN a ELSE b

RECURSIVE Pow2(_)
Pow2(n) == IF n <= 0 THEN 1 ELSE 2 * Pow2(n - 1)

\* Array.prototype.slice(from, from + n), 0-based from
Slice(s, from, n) == SubSeq(s, from + 1, Min(Len(s), from + n))

\* all sequences over S of length 1..n
SeqsUpTo(S, n) == UNION {[1..k -> S] : k \in 1..n}

\* Map.prototype.set on a Map<string, TFile> kept as its key order
OrderedAdd(keys, p) == IF p \in Range(keys) THEN keys ELSE Append(keys, p)

----------------------------------------------------------------------------
(* retryState: a Map in insertion order, kept as the sequence of its entries *)

RetryIndex(rs, p) ==
    IF \E i \in 1..Len(rs) : rs[i].path = p
    THEN CHOOSE i \in 1..Len(rs) : rs[i].path = p /\ \A j \in 1..(i - 1) : rs[j].path # p
    ELSE 0

RetryHas(rs, p) == RetryIndex(rs, p) # 0

RetryGet(rs, p) == rs[RetryIndex(rs, p)]

\* a set that appends a second entry for a path that has one
RetrySet_AlwaysAppends(rs, p, attempts, at) ==
    Append(rs, [path |-> p, attempts |-> attempts, nextRetryAt |-> at])

\* Map.prototype.set: replaces in place, or appends
RetrySet(rs, p, attempts, at) ==
    LET e == [path |-> p, attempts |-> attempts, nextRetryAt |-> at]
    IN  IF RetryHas(rs, p) THEN [rs EXCEPT ![RetryIndex(rs, p)] = e] ELSE Append(rs, e)

\* Map.prototype.delete
RetryDelete(rs, p) == SelectSeq(rs, LAMBDA e : e.path # p)

NoTimer == [armed |-> FALSE, session |-> 0, at |-> 0]

\* clearTimeout of the retry timer if there is one
ClearRetryTimer(s) ==
    [s EXCEPT !.retryTimer = NoTimer,
              !.retryTimeouts = IF s.retryTimer.armed THEN @ - 1 ELSE @]

ClearRetryState(s) == [ClearRetryTimer(s) EXCEPT !.retryState = <<>>]

\* the earliest nextRetryAt over all entries
RECURSIVE EarliestRetry(_, _)
EarliestRetry(rs, acc) ==
    IF rs = <<>> THEN acc
    ELSE EarliestRetry(Tail(rs), IF Head(rs).nextRetryAt < acc THEN Head(rs).nextRetryAt ELSE acc)

ScheduleRetryTimer(s, session, t) ==
    IF s.stopped \/ s.processingSession # session \/ Len(s.retryState) = 0
    THEN ClearRetryTimer(s)
    ELSE LET nextRetryAt == EarliestRetry(s.retryState, RETRY_UNSCHEDULED_AT)
         IN  IF nextRetryAt = RETRY_UNSCHEDULED_AT
             THEN ClearRetryTimer(s)
             ELSE [ClearRetryTimer(s) EXCEPT
                      !.retryTimer = [armed |-> TRUE, session |-> session,
                                      at |-> t + Max(0, nextRetryAt - t)],
                      !.retryTimeouts = @ + 1]

\* clearRetryForPath that deletes the entry and leaves the timer as it is
ClearRetryForPath_NoReschedule(s, p, t) == [s EXCEPT !.retryState = RetryDelete(@, p)]

\* clearRetryForPath that leaves the entry in place
ClearRetryForPath_KeepsEntry(s, p, t) == s

ClearRetryForPath(s, p, t) ==
    IF ~RetryHas(s.retryState, p) THEN s
    ELSE ScheduleRetryTimer([s EXCEPT !.retryState = RetryDelete(@, p)], s.processingSession, t)

\* a delay that grows by RETRY_INITIAL_DELAY_MS per failure instead of doubling
RetryDelay_Linear(attempts) ==
    Min(RETRY_INITIAL_DELAY_MS * attempts, RETRY_MAX_DELAY_MS)

RetryDelay(attempts) ==
    Min(RETRY_INITIAL_DELAY_MS * Pow2(attempts - 1), RETRY_MAX_DELAY_MS)

\* scheduleRetry without the RETRY_MAX_ATTEMPTS test: every failure reschedules
ScheduleRetry_NeverGivesUp(s, p, session, t) ==
    IF s.stopped \/ s.processingSession # session THEN s
    ELSE LET attempts == IF RetryHas(s.retryState, p)
                         THEN RetryGet(s.retryState, p).attempts + 1 ELSE 1
         IN  ScheduleRetryTimer(
                 [s EXCEPT !.retryState = RetrySet(@, p, attempts, t + RetryDelay(attempts))],
                 session, t)

\* scheduleRetry that reports the exhaustion and then starts the path's
\* retries over
ScheduleRetry_RetriesAfterDrop(s, p, session, t) ==
    IF s.stopped \/ s.processingSession # session THEN s
    ELSE LET existing == RetryHas(s.retryState, p)
             attempts == IF existing THEN RetryGet(s.retryState, p).attempts + 1 ELSE 1
         IN  IF attempts > RETRY_MAX_ATTEMPTS
             THEN ScheduleRetryTimer(
                      [s EXCEPT !.retryState = RetrySet(@, p, 1, t + RetryDelay(1)),
                                !.exhausted = @ \cup {p}],
                      session, t)
             ELSE ScheduleRetryTimer(
                      [s EXCEPT !.retryState = RetrySet(@, p, attempts, t + RetryDelay(attempts)),
                                !.exhausted = @ \ {p}],
                      session, t)

\* exhausted records the paths reported by console.error as dropped after
\* retry exhaustion, until their next result is handled
ScheduleRetry(s, p, session, t) ==
    IF s.stopped \/ s.processingSession # session THEN s
    ELSE LET existing == RetryHas(s.retryState, p)
             attempts == IF existing THEN RetryGet(s.retryState, p).attempts + 1 ELSE 1
         IN  IF attempts > RETRY_MAX_ATTEMPTS
             THEN IF existing
                  THEN ScheduleRetryTimer(
                           [s EXCEPT !.retryState = RetryDelete(@, p),
                                     !.exhausted = @ \cup {p}],
                           session, t)
                  ELSE s
             ELSE ScheduleRetryTimer(
                      [s EXCEPT !.retryState = RetrySet(@, p, attempts, t + RetryDelay(attempts)),
                                !.exhausted = @ \ {p}],
                      session, t)

----------------------------------------------------------------------------
(* queueFiles and startProcessing *)

\* startProcessing that opens a new session
StartProcessing_NewSession(s, settings) ==
    [s EXCEPT !.stopped = FALSE,
              !.processingSession = @ + 1,
              !.currentBatchSettings = settings,
              !.queueDebounceTimer = TRUE,
              !.debounceTimeouts = (IF s.queueDebounceTimer THEN @ - 1 ELSE @) + 1]

\* startProcessing that arms its timer without cancelling the pending one
StartProcessing_NoCancel(s, settings) ==
    [s EXCEPT !.stopped = FALSE,
              !.currentBatchSettings = settings,
              !.queueDebounceTimer = TRUE,
              !.debounceTimeouts = @ + 1]

\* clearTimeout of the pending timer if there is one, then setTimeout
StartProcessing(s, settings) ==
    [s EXCEPT !.stopped = FALSE,
              !.currentBatchSettings = settings,
              !.queueDebounceTimer = TRUE,
              !.debounceTimeouts = (IF s.queueDebounceTimer THEN @ - 1 ELSE @) + 1]

\* queueFiles without the processingFiles test: a file that is being processed
\* is queued like any other
RECURSIVE QueueLoop_NoProcessingTest(_, _, _)
QueueLoop_NoProcessingTest(s, newJobs, files) ==
    IF files = <<>> THEN [s |-> s, newJobs |-> newJobs]
    ELSE LET p == Head(files)
         IN  IF p \in s.queuedFiles
             THEN QueueLoop_NoProcessingTest(s, newJobs, Tail(files))
             ELSE QueueLoop_NoProcessingTest([s EXCEPT !.queuedFiles = @ \cup {p}],
                                             Append(newJobs, p), Tail(files))

\* the for loop of queueFiles: acc = [s, newJobs]
RECURSIVE QueueLoop(_, _, _)
QueueLoop(s, newJobs, files) ==
    IF files = <<>> THEN [s |-> s, newJobs |-> newJobs]
    ELSE LET p == Head(files)
         IN  IF p \in s.processingFiles
             THEN QueueLoop([s EXCEPT !.dirtyFilesDuringProcessing = OrderedAdd(@, p)],
                            newJobs, Tail(files))
             ELSE IF p \in s.queuedFiles
             THEN QueueLoop(s, newJobs, Tail(files))
             ELSE QueueLoop([s EXCEPT !.queuedFiles = @ \cup {p}],
                            Append(newJobs, p), Tail(files))

\* queueFiles without the stopped test
QueueFiles_IgnoresStopped(s, files) ==
    LET r == QueueLoop(s, <<>>, files)
    IN  IF Len(r.newJobs) > 0 THEN [r.s EXCEPT !.queue = @ \o r.newJobs] ELSE r.s

\* queueFiles without the queuedFiles test: every call appends its files
QueueFiles_NoQueuedTest(s, files) ==
    IF s.stopped THEN s
    ELSE [s EXCEPT !.queue = @ \o SelectSeq(files, LAMBDA p : p \notin s.processingFiles),
                   !.queuedFiles = @ \cup (Range(files) \ s.processingFiles)]

\* queueFiles that puts the new jobs in front of the queue
QueueFiles_PushesToFront(s, files) ==
    IF s.stopped THEN s
    ELSE LET r == QueueLoop(s, <<>>, files)
         IN  IF Len(r.newJobs) > 0
             THEN LET q == [r.s EXCEPT !.queue = r.newJobs \o @]
                  IN  IF ~q.isProcessing /\ ~q.queueDebounceTimer /\ q.currentBatchSettings # 0
                      THEN StartProcessing(q, q.currentBatchSettings)
                      ELSE q
             ELSE r.s

\* queueFiles that starts the debounce although a batch is processing
QueueFiles_ArmsWhileProcessing(s, files) ==
    IF s.stopped THEN s
    ELSE LET r == QueueLoop(s, <<>>, files)
         IN  IF Len(r.newJobs) > 0
             THEN LET q == [r.s EXCEPT !.queue = @ \o r.newJobs]
                  IN  IF ~q.queueDebounceTimer /\ q.currentBatchSettings # 0
                      THEN StartProcessing(q, q.currentBatchSettings)
                      ELSE q
             ELSE r.s

QueueFiles(s, files) ==
    IF s.stopped THEN s
    ELSE LET r == QueueLoop(s, <<>>, files)
         IN  IF Len(r.newJobs) > 0
             THEN LET q == [r.s EXCEPT !.queue = @ \o r.newJobs]
                  IN  IF ~q.isProcessing /\ ~q.queueDebounceTimer /\ q.currentBatchSettings # 0
                      THEN StartProcessing(q, q.currentBatchSettings)
                      ELSE q
             ELSE r.s

----------------------------------------------------------------------------
(* Initial state: the field initialisers and the constructor *)

FreeBatch ==
    [pc |-> "free", session |-> 0, settings |-> 0, activeJobs |-> <<>>, i |-> 0,
     aborted |-> FALSE, updates |-> {}, processedMtimeUpdates |-> {},
     expectedProviderMtime |-> <<>>, fileMtimeAtStart |-> <<>>, stagedMtime |-> <<>>,
     processFileSettings |-> 0]

\* no waitForIdle() call pending; caught records that the catch clause ran
NoWaiter == [pc |-> "none", promise |-> 0, caught |-> FALSE]

\* a provider whose subclass fixes the two readonly sizes
InitWith(batchSize, parallelLimit) ==
    /\ this = [QUEUE_BATCH_SIZE |-> batchSize,
               PARALLEL_LIMIT |-> parallelLimit,
               queue |-> <<>>,
               isProcessing |-> FALSE,
               abortController |-> 0,
               queueDebounceTimer |-> FALSE,
               debounceTimeouts |-> 0,
               currentBatchSettings |-> 0,
               processingFiles |-> {},
               queuedFiles |-> {},
               dirtyFilesDuringProcessing |-> <<>>,
               stopped |-> FALSE,
               processingSession |-> 0,
               activeBatchPromise |-> 0,
               retryTimer |-> NoTimer,
               retryTimeouts |-> 0,
               exhausted |-> {},
               debouncedSinceStop |-> TRUE,
               fileMtime |-> [p \in VaultPaths |-> 1],
               dbMtime |-> [p \in VaultPaths |-> NoFileData],
               retryState |-> <<>>]
    /\ batches = [b \in Slots |-> FreeBatch]
    /\ pendingTicks = 0
    /\ waiter = NoWaiter

Init == InitWith(SmallBatchSize, SmallParallelLimit)


----------------------------------------------------------------------------
(* processNextBatch.  A batch in flight keeps its locals in batches[b]:     *)
(* session, settings, activeJobs, the loop index i, its abort signal, and   *)
(* the staged updates / processedMtimeUpdates (by path, stagedMtime giving   *)
(* the mtime and expectedPreviousMtime of each record), and per job the      *)
(* locals expectedProviderMtime and fileMtimeAtStart, and the settings       *)
(* argument of the chunk's processFile calls (processFileSettings).  pc is   *)
(* the await the invocation is suspended at:                                 *)
(* "chunk" (Promise.all of the processFile                                   *)
(* calls of activeJobs.slice(i, i + PARALLEL_LIMIT)), "yield"               *)
(* (yieldToEventLoop), "write" (the batched database write).                *)

\* an AbortController whose batch has completed: aborting it has no effect
SettledController == -1

InFlight(b) == batches[b].pc # "free"

FreeSlots == {b \in Slots : ~InFlight(b)}

\* a slice that takes every remaining job at once
Chunk_WholeBatch(bt) == Slice(bt.activeJobs, bt.i, Len(bt.activeJobs))

\* activeJobs.slice(i, i + PARALLEL_LIMIT): the processFile calls in flight
\* while the batch is suspended at "chunk"
Chunk(bt) == Slice(bt.activeJobs, bt.i, this.PARALLEL_LIMIT)

\* stopped || abortSignal.aborted || processingSession !== session
Cancelled(s, bt) == s.stopped \/ bt.aborted \/ s.processingSession # bt.session

\* a finally block that leaves the batch's files in processingFiles
FinallyBlock_KeepsProcessingFiles(s, bt) ==
    LET sameSession == s.processingSession = bt.session
        isActiveSession == sameSession /\ ~s.stopped /\ ~bt.aborted
        dirtyFiles == s.dirtyFilesDuringProcessing
        cleared == [s EXCEPT !.dirtyFilesDuringProcessing = <<>>]
        s2 == IF isActiveSession
              THEN IF Len(dirtyFiles) > 0 THEN QueueFiles(cleared, dirtyFiles) ELSE cleared
              ELSE IF sameSession THEN cleared ELSE s
    IN  [s2 EXCEPT !.isProcessing = FALSE]

\* a finally block that clears the dirty files without queueing them again
FinallyBlock_DropsDirty(s, bt) ==
    LET sameSession == s.processingSession = bt.session
        s1 == IF sameSession
              THEN [s EXCEPT !.processingFiles = @ \ Range(bt.activeJobs),
                             !.dirtyFilesDuringProcessing = <<>>]
              ELSE s
    IN  [s1 EXCEPT !.isProcessing = FALSE]

\* the finally block up to and including isProcessing = false
FinallyBlock(s, bt) ==
    LET sameSession == s.processingSession = bt.session
        isActiveSession == sameSession /\ ~s.stopped /\ ~bt.aborted
        s1 == IF sameSession
              THEN [s EXCEPT !.processingFiles = @ \ Range(bt.activeJobs)]
              ELSE s
        dirtyFiles == s1.dirtyFilesDuringProcessing
        cleared == [s1 EXCEPT !.dirtyFilesDuringProcessing = <<>>]
        s2 == IF isActiveSession
              THEN IF Len(dirtyFiles) > 0 THEN QueueFiles(cleared, dirtyFiles) ELSE cleared
              ELSE IF sameSession THEN cleared ELSE s1
    IN  [s2 EXCEPT !.isProcessing = FALSE]

\* the condition under which the finally block schedules the next batch
\* a finally block that never schedules the next batch
SchedulesNext_Never(s, bt) == FALSE

SchedulesNext(s, bt) ==
    /\ Len(FinallyBlock(s, bt).queue) > 0
    /\ s.processingSession = bt.session /\ ~s.stopped /\ ~bt.aborted

\* runProcessNextBatch's promise.finally callback for promise b
PromiseFinally(s, b) ==
    IF s.activeBatchPromise = b THEN [s EXCEPT !.activeBatchPromise = 0] ELSE s

\* waitForIdle without the try/catch around its await
WaitForIdleResume_NoCatch(w, s, b, rejected) ==
    IF w.pc = "waiting" /\ w.promise = b
    THEN IF rejected THEN [pc |-> "rejected", promise |-> 0, caught |-> FALSE]
         ELSE IF s.activeBatchPromise # 0 /\ s.activeBatchPromise # b
              THEN [pc |-> "waiting", promise |-> s.activeBatchPromise, caught |-> FALSE]
              ELSE [pc |-> "resolved", promise |-> 0, caught |-> FALSE]
    ELSE w

\* waitForIdle resumed after its awaited promise b settled (fulfilled or
\* rejected), then the loop test
WaitForIdleResume(w, s, b, rejected) ==
    IF w.pc = "waiting" /\ w.promise = b
    THEN \* try { await promise } catch { }: a rejection is swallowed
         LET caught == w.caught \/ rejected
         IN  IF s.activeBatchPromise = b
             THEN [pc |-> "resolved", promise |-> 0, caught |-> caught]
             ELSE IF s.activeBatchPromise # 0
                  THEN [pc |-> "waiting", promise |-> s.activeBatchPromise, caught |-> caught]
                  ELSE [pc |-> "resolved", promise |-> 0, caught |-> caught]
    ELSE w

\* batch b runs its finally block from provider state s and its promise
\* settles (rejected = an error escaped processNextBatch): first the
\* promise.finally callback registered by
\* runProcessNextBatch, then the waitForIdle continuation registered later
CompleteBatch(s, b, rejected) ==
    LET bt == batches[b]
        s1 == FinallyBlock(s, bt)
        s2 == PromiseFinally(s1, b)
        s3 == IF s2.abortController = b
              THEN [s2 EXCEPT !.abortController = SettledController] ELSE s2
    IN  /\ SchedulesNext(s, bt) => pendingTicks < MaxPendingTicks
        /\ this' = s3
        /\ batches' = [batches EXCEPT ![b] = FreeBatch]
        /\ pendingTicks' = IF SchedulesNext(s, bt) THEN pendingTicks + 1 ELSE pendingTicks
        /\ waiter' = WaitForIdleResume(waiter, s2, b, rejected)

\* fileData ? fileData[getProviderProcessedMtimeField(type)] : 0
ExpectedProviderMtime(fileData) == IF fileData = NoFileData THEN 0 ELSE fileData

\* const fileMtimeAtStart = job.file.stat.mtime, for the given jobs
ReadMtimes(s, bt, jobs) ==
    [bt EXCEPT !.fileMtimeAtStart =
        [p \in DOMAIN @ \cup jobs |-> IF p \in jobs THEN s.fileMtime[p] ELSE @[p]]]

\* map callbacks that hand processFile the provider's settings of the moment
EntersChunk_ReadsCurrentSettings(s, bt) ==
    ReadMtimes(s, [bt EXCEPT !.pc = "chunk",
                             !.processFileSettings = s.currentBatchSettings],
               Range(Chunk(bt)))

\* the map callbacks of the chunk run up to their await of processFile, which
\* they call with the batch's settings
EntersChunk(s, bt) ==
    ReadMtimes(s, [bt EXCEPT !.pc = "chunk", !.processFileSettings = bt.settings],
               Range(Chunk(bt)))

\* a record that takes the file's mtime when the result is handled
StageMtime_ReadsStatLate(s, bt, p) ==
    [mtime |-> s.fileMtime[p], expectedPreviousMtime |-> bt.expectedProviderMtime[p]]

\* { mtime: fileMtimeAtStart, expectedPreviousMtime: expectedProviderMtime }
StageMtime(s, bt, p) ==
    [mtime |-> bt.fileMtimeAtStart[p], expectedPreviousMtime |-> bt.expectedProviderMtime[p]]

\* a filter that keeps every job of the slice, needed or not
ActiveJobs_KeepsAll(batch, needed) == batch

\* jobsWithData.filter(item => item.needsProcessing)
ActiveJobs(batch, needed) == SelectSeq(batch, LAMBDA p : p \in needed)

\* runProcessNextBatch from provider state s; needed = the paths of the slice
\* for which needsProcessing() returns true; ticks = the next-batch callbacks
\* still pending
RunProcessNextBatch(s, needed, ticks) ==
    IF s.stopped \/ s.isProcessing \/ Len(s.queue) = 0 \/ s.currentBatchSettings = 0
    THEN \* processNextBatch returns at its guard: the promise is settled, it is
         \* stored in activeBatchPromise and cleared again by its finally callback
         /\ this' = [s EXCEPT !.activeBatchPromise = 0]
         /\ pendingTicks' = ticks
         /\ UNCHANGED <<batches, waiter>>
    ELSE LET batch == Slice(s.queue, 0, s.QUEUE_BATCH_SIZE)
             activeJobs == ActiveJobs(batch, needed)
             s1 == [s EXCEPT !.isProcessing = TRUE,
                             !.queue = SubSeq(@, Len(batch) + 1, Len(@)),
                             !.queuedFiles = @ \ Range(batch)]
             bt0 == [pc |-> "chunk", session |-> s.processingSession,
                     settings |-> s.currentBatchSettings, activeJobs |-> activeJobs,
                     i |-> 0, aborted |-> FALSE, updates |-> {},
                     processedMtimeUpdates |-> {},
                     expectedProviderMtime |->
                         [p \in Range(activeJobs) |-> ExpectedProviderMtime(s.dbMtime[p])],
                     fileMtimeAtStart |-> <<>>, stagedMtime |-> <<>>,
                     processFileSettings |-> 0]
             bt == EntersChunk(s, bt0)
         IN  IF Len(activeJobs) = 0
             THEN \* return inside try: the finally block runs in the same task
                  LET s2 == [FinallyBlock(s1, bt) EXCEPT
                                !.abortController = SettledController,
                                !.activeBatchPromise = 0]
                  IN  /\ SchedulesNext(s1, bt) => ticks < MaxPendingTicks
                      /\ this' = s2
                      /\ pendingTicks' =
                            IF SchedulesNext(s1, bt) THEN ticks + 1 ELSE ticks
                      /\ UNCHANGED <<batches, waiter>>
             ELSE /\ FreeSlots # {}
                  /\ LET b == CHOOSE x \in FreeSlots : \A y \in FreeSlots : x <= y
                     IN  /\ this' = [s1 EXCEPT !.abortController = b,
                                               !.processingFiles = @ \cup Range(activeJobs),
                                               !.activeBatchPromise = b]
                         /\ batches' = [batches EXCEPT ![b] = bt]
                  /\ pendingTicks' = ticks
                  /\ UNCHANGED waiter

\* what a processFile call settles with
Outcomes == {"processedUpdate", "processed", "update", "nothing", "throws"}

\* the result the chunk's map callback returns for an outcome (the catch
\* clause turns an exception into { update: null, processed: false })
ResultOf(o) ==
    [processed |-> o \in {"processedUpdate", "processed"},
     update |-> o \in {"processedUpdate", "update"}]

\* a forEach that registers and clears retries whatever the batch's session
RECURSIVE HandleResults_NoSessionTest(_, _, _, _, _)
HandleResults_NoSessionTest(s, bt, chunk, outcome, t) ==
    IF chunk = <<>> THEN [s |-> s, bt |-> bt]
    ELSE LET p == Head(chunk)
             result == ResultOf(outcome[p])
             s1 == IF ~result.processed
                   THEN ScheduleRetry(s, p, bt.session, t)
                   ELSE ClearRetryForPath([s EXCEPT !.exhausted = @ \ {p}], p, t)
             bt1 == [bt EXCEPT
                       !.processedMtimeUpdates = IF result.processed THEN @ \cup {p} ELSE @,
                       !.stagedMtime =
                           IF result.processed
                           THEN [q \in DOMAIN @ \cup {p} |->
                                    IF q = p THEN StageMtime(s, bt, p) ELSE @[q]]
                           ELSE @,
                       !.updates = IF result.update THEN @ \cup {p} ELSE @]
         IN  HandleResults_NoSessionTest(s1, bt1, Tail(chunk), outcome, t)

\* results.forEach over the chunk, in chunk order: acc = [s, bt]
RECURSIVE HandleResults(_, _, _, _, _)
HandleResults(s, bt, chunk, outcome, t) ==
    IF chunk = <<>> THEN [s |-> s, bt |-> bt]
    ELSE LET p == Head(chunk)
             result == ResultOf(outcome[p])
             s1 == IF s.processingSession = bt.session /\ ~s.stopped /\ ~bt.aborted
                   THEN IF ~result.processed
                        THEN ScheduleRetry(s, p, bt.session, t)
                        ELSE ClearRetryForPath([s EXCEPT !.exhausted = @ \ {p}], p, t)
                   ELSE s
             bt1 == [bt EXCEPT
                       !.processedMtimeUpdates = IF result.processed THEN @ \cup {p} ELSE @,
                       !.stagedMtime =
                           IF result.processed
                           THEN [q \in DOMAIN @ \cup {p} |->
                                    IF q = p THEN StageMtime(s, bt, p) ELSE @[q]]
                           ELSE @,
                       !.updates = IF result.update THEN @ \cup {p} ELSE @]
         IN  HandleResults(s1, bt1, Tail(chunk), outcome, t)

\* the failures the retry scheduler has counted for p
FailuresInRow(s, p) ==
    IF RetryHas(s.retryState, p) THEN RetryGet(s.retryState, p).attempts ELSE 0

\* a chunk whose Promise.all rejects when a processFile call throws: the batch
\* leaves its loop for the catch clause and the finally block
SettleChunk_ThrowRejects(b, outcome) ==
    /\ batches[b].pc = "chunk"
    /\ IF \E p \in DOMAIN outcome : outcome[p] = "throws"
       THEN CompleteBatch(this, b, FALSE)
       ELSE LET r == HandleResults(this, batches[b], Chunk(batches[b]), outcome, DateNow)
            IN  /\ this' = r.s
                /\ batches' = [batches EXCEPT ![b] = [r.bt EXCEPT !.pc = "yield"]]
                /\ UNCHANGED <<pendingTicks, waiter>>

\* Promise.all of a chunk settles; results.forEach runs; the batch yields
SettleChunk(b, outcome) ==
    /\ batches[b].pc = "chunk"
    /\ LET thrown == {p \in DOMAIN outcome : outcome[p] = "throws"}
           \* the catch clause of the map callback reads the mtime again
           bt == ReadMtimes(this, batches[b], thrown)
           r == HandleResults(this, bt, Chunk(batches[b]), outcome, DateNow)
       IN  /\ this' = r.s
           /\ batches' = [batches EXCEPT ![b] = [r.bt EXCEPT !.pc = "yield"]]
    /\ UNCHANGED <<pendingTicks, waiter>>

\* the write guard without the session test
WritesDatabase_NoSessionTest(s, bt, shutdown) ==
    /\ bt.updates # {} \/ bt.processedMtimeUpdates # {}
    /\ ~shutdown

\* a write guard that does not ask whether the host is shutting down
WritesDatabase_IgnoresShutdown(s, bt, shutdown) ==
    /\ ~Cancelled(s, bt)
    /\ bt.updates # {} \/ bt.processedMtimeUpdates # {}

\* the guard of the batched database write
WritesDatabase(s, bt, shutdown) ==
    /\ ~Cancelled(s, bt)
    /\ bt.updates # {} \/ bt.processedMtimeUpdates # {}
    /\ ~shutdown

\* a loop test that only asks whether the provider is stopped now
StartsChunk_OnlyStoppedTest(s, bt) == bt.i < Len(bt.activeJobs) /\ ~s.stopped

\* the loop test before a chunk: i < activeJobs.length and not cancelled
StartsChunk(s, bt) == bt.i < Len(bt.activeJobs) /\ ~Cancelled(s, bt)

\* yieldToEventLoop resumes: next chunk, or the database write, or finally
AfterYield(b, shutdown, rejected) ==
    /\ batches[b].pc = "yield"
    /\ LET bt == [batches[b] EXCEPT !.i = @ + this.PARALLEL_LIMIT]
       IN  IF StartsChunk(this, bt)
           THEN /\ batches' = [batches EXCEPT ![b] = EntersChunk(this, bt)]
                /\ UNCHANGED <<this, pendingTicks, waiter>>
           ELSE IF WritesDatabase(this, bt, shutdown)
           THEN /\ batches' = [batches EXCEPT ![b] = [bt EXCEPT !.pc = "write"]]
                /\ UNCHANGED <<this, pendingTicks, waiter>>
           ELSE CompleteBatch(this, b, rejected)

\* a write whose rejection leaves the function without running the finally
\* block
WriteSettles_FailureSkipsFinally(b, ok, rejected) ==
    /\ batches[b].pc = "write"
    /\ IF ok
       THEN CompleteBatch(this, b, rejected)
       ELSE /\ batches' = [batches EXCEPT ![b] = FreeBatch]
            /\ UNCHANGED <<this, pendingTicks, waiter>>

\* the database write settles (ok) or rejects (caught and logged); finally
WriteSettles(b, ok, rejected) ==
    /\ batches[b].pc = "write"
    /\ CompleteBatch(this, b, rejected)

----------------------------------------------------------------------------
(* External calls and timers *)

QueueFilesCall(files) ==
    /\ this' = QueueFiles(this, files)
    /\ UNCHANGED <<batches, pendingTicks, waiter>>

StartProcessingCall(settings) ==
    /\ this' = StartProcessing(this, settings)
    /\ UNCHANGED <<batches, pendingTicks, waiter>>

OnSettingsChanged(settings) ==
    /\ this' = [this EXCEPT !.currentBatchSettings = settings]
    /\ UNCHANGED <<batches, pendingTicks, waiter>>

\* a stopProcessing that empties the queue and leaves queuedFiles as it is
StopProcessing_KeepsQueuedFiles(s) ==
    [ClearRetryState(s) EXCEPT
        !.processingSession = @ + 1,
        !.stopped = TRUE,
        !.abortController = 0,
        !.queueDebounceTimer = FALSE,
        !.debounceTimeouts = IF s.queueDebounceTimer THEN @ - 1 ELSE @,
        !.isProcessing = FALSE,
        !.queue = <<>>,
        !.processingFiles = {},
        !.dirtyFilesDuringProcessing = <<>>,
        !.exhausted = {},
        !.debouncedSinceStop = FALSE]

\* the provider fields after stopProcessing
StopProcessing(s) ==
    [ClearRetryState(s) EXCEPT
        !.processingSession = @ + 1,
        !.stopped = TRUE,
        !.abortController = 0,
        !.queueDebounceTimer = FALSE,
        !.debounceTimeouts = IF s.queueDebounceTimer THEN @ - 1 ELSE @,
        !.isProcessing = FALSE,
        !.queue = <<>>,
        !.processingFiles = {},
        !.queuedFiles = {},
        !.dirtyFilesDuringProcessing = <<>>,
        !.exhausted = {},
        !.debouncedSinceStop = FALSE]

\* abortController.abort(): the signal of the batch that owns the controller
AbortSignals(s, bs) ==
    [b \in Slots |->
        IF s.abortController = b /\ bs[b].pc # "free"
        THEN [bs[b] EXCEPT !.aborted = TRUE] ELSE bs[b]]

StopProcessingCall ==
    /\ this' = StopProcessing(this)
    /\ batches' = AbortSignals(this, batches)
    /\ UNCHANGED <<pendingTicks, waiter>>

\* the queueDebounceTimer callback
DebounceFires(needed) ==
    /\ this.debounceTimeouts > 0
    /\ LET s == [this EXCEPT !.queueDebounceTimer = FALSE, !.debounceTimeouts = @ - 1,
                              !.debouncedSinceStop = TRUE]
       IN  IF ~s.stopped /\ ~s.isProcessing /\ Len(s.queue) > 0
           THEN RunProcessNextBatch(s, needed, pendingTicks)
           ELSE /\ this' = s
                /\ UNCHANGED <<batches, pendingTicks, waiter>>

\* the requestAnimationFrame / setTimeout(0) callback of the finally block
TickFires(needed) ==
    /\ pendingTicks > 0
    /\ RunProcessNextBatch(this, needed, pendingTicks - 1)

\* a loop that keeps the entry of a path that no longer resolves to a file
RECURSIVE FlushLoop_KeepsMissing(_, _, _, _, _)
FlushLoop_KeepsMissing(s, filesToRetry, entries, t, exists) ==
    IF entries = <<>> THEN [s |-> s, filesToRetry |-> filesToRetry]
    ELSE LET e == Head(entries)
         IN  IF e.nextRetryAt > t \/ e.path \notin exists
             THEN FlushLoop_KeepsMissing(s, filesToRetry, Tail(entries), t, exists)
             ELSE FlushLoop_KeepsMissing(
                      [s EXCEPT !.retryState =
                          RetrySet(@, e.path, e.attempts, RETRY_UNSCHEDULED_AT)],
                      Append(filesToRetry, e.path), Tail(entries), t, exists)

\* the for loop of flushRetries over the Map's entries: exists = the paths
\* getAbstractFileByPath resolves to a TFile
RECURSIVE FlushLoop(_, _, _, _, _)
FlushLoop(s, filesToRetry, entries, t, exists) ==
    IF entries = <<>> THEN [s |-> s, filesToRetry |-> filesToRetry]
    ELSE LET e == Head(entries)
         IN  IF e.nextRetryAt > t
             THEN FlushLoop(s, filesToRetry, Tail(entries), t, exists)
             ELSE IF e.path \in exists
             THEN FlushLoop([s EXCEPT !.retryState =
                                RetrySet(@, e.path, e.attempts, RETRY_UNSCHEDULED_AT)],
                            Append(filesToRetry, e.path), Tail(entries), t, exists)
             ELSE FlushLoop([s EXCEPT !.retryState = RetryDelete(@, e.path)],
                            filesToRetry, Tail(entries), t, exists)

FlushRetries(s, session, t, exists) ==
    IF s.stopped \/ s.processingSession # session \/ Len(s.retryState) = 0
    THEN ClearRetryState(s)
    ELSE LET r == FlushLoop(s, <<>>, s.retryState, t, exists)
             s1 == IF Len(r.filesToRetry) > 0 THEN QueueFiles(r.s, r.filesToRetry) ELSE r.s
         IN  ScheduleRetryTimer(s1, session, t)

\* the retryTimer callback, at or after its deadline
RetryTimerFires(exists) ==
    /\ this.retryTimer.armed
    /\ DateNow >= this.retryTimer.at
    /\ this' = FlushRetries([this EXCEPT !.retryTimer = NoTimer, !.retryTimeouts = @ - 1],
                            this.retryTimer.session, DateNow, exists)
    /\ UNCHANGED <<batches, pendingTicks, waiter>>

\* the timestamps still ahead of the clock: scheduled entries and the timer
PendingDeadlines(s) ==
    ({s.retryState[i].nextRetryAt : i \in 1..Len(s.retryState)} \ {RETRY_UNSCHEDULED_AT})
        \cup (IF s.retryTimer.armed THEN {s.retryTimer.at} ELSE {})

\* a timestamp after d ms have passed (one that is due stays due)
Elapse(at, d) == IF at = RETRY_UNSCHEDULED_AT THEN at ELSE Max(DateNow, at - d)

\* time passes, up to the next instant at which something becomes due
ClockAdvances ==
    /\ \E d \in PendingDeadlines(this) :
          /\ d > DateNow
          /\ \A e \in PendingDeadlines(this) : e > DateNow => d <= e
          /\ this' = [this EXCEPT
                !.retryState = [i \in 1..Len(@) |->
                                  [@[i] EXCEPT !.nextRetryAt = Elapse(@, d)]],
                !.retryTimer = [@ EXCEPT !.at = Elapse(@, d)]]
    /\ UNCHANGED <<batches, pendingTicks, waiter>>

\* the vault modifies a file: file.stat.mtime moves on
FileModified(p) ==
    /\ this.fileMtime[p] < MaxMtime
    /\ this' = [this EXCEPT !.fileMtime[p] = @ + 1]
    /\ UNCHANGED <<batches, pendingTicks, waiter>>

\* the database record of a file changes (a write of this or another
\* provider lands, or the record is removed)
DatabaseChanges(p, fileData) ==
    /\ this.dbMtime[p] # fileData
    /\ this' = [this EXCEPT !.dbMtime[p] = fileData]
    /\ UNCHANGED <<batches, pendingTicks, waiter>>

\* a call of waitForIdle(): the loop test, then the first await
WaitForIdle(s, w) ==
    IF s.activeBatchPromise # 0
    THEN [pc |-> "waiting", promise |-> s.activeBatchPromise, caught |-> FALSE]
    ELSE [pc |-> "resolved", promise |-> 0, caught |-> FALSE]

WaitForIdleCall ==
    /\ waiter.pc = "none"
    /\ waiter' = WaitForIdle(this, waiter)
    /\ UNCHANGED <<this, batches, pendingTicks>>

\* the caller drops the settled promise; the next call is observed
WaitForIdleReturn ==
    /\ waiter.pc \in {"resolved", "rejected"}
    /\ waiter' = NoWaiter
    /\ UNCHANGED <<this, batches, pendingTicks>>

----------------------------------------------------------------------------
(* The environment: the inputs of the actions, within the bounds *)

\* the slice a batch starting now would take: needsProcessing is asked of these
NextSlice == Range(Slice(this.queue, 0, this.QUEUE_BATCH_SIZE))

\* the paths flushRetries resolves against the vault
DuePaths == {this.retryState[i].path : i \in 1..Len(this.retryState)}

\* the outcomes of the processFile calls of batch b's chunk in which no path
\* fails more than maxInRow times in a row and at most maxEntries paths are
\* being retried at once
ChunkOutcomes(b, maxInRow, maxEntries) ==
    {o \in [Range(Chunk(batches[b])) -> Outcomes] :
        LET failing == {p \in DOMAIN o : ~ResultOf(o[p]).processed}
        IN  /\ \A p \in failing : FailuresInRow(this, p) < maxInRow
            /\ Cardinality(failing \cup DuePaths) <= maxEntries}

QueueFilesInputs == SeqsUpTo(Paths, MaxCallLen)

\* the calls other than stopProcessing and the batch steps, with failures
\* within maxInRow and maxEntries
Steps(maxInRow, maxEntries) ==
    \/ \E files \in QueueFilesInputs : QueueFilesCall(files)
    \/ \E settings \in Settings : StartProcessingCall(settings)
    \/ \E settings \in Settings : OnSettingsChanged(settings)
    \/ \E needed \in SUBSET NextSlice : DebounceFires(needed)
    \/ \E needed \in SUBSET NextSlice : TickFires(needed)
    \/ \E b \in Slots : \E outcome \in ChunkOutcomes(b, maxInRow, maxEntries) :
          SettleChunk(b, outcome)
    \/ \E b \in Slots, shutdown \in BOOLEAN, rejected \in BOOLEAN :
          AfterYield(b, shutdown, rejected)
    \/ \E b \in Slots, ok \in BOOLEAN, rejected \in BOOLEAN : WriteSettles(b, ok, rejected)

\* the calls and the batch steps, with at most maxSession stops
Core(maxSession, maxInRow, maxEntries) ==
    \/ Steps(maxInRow, maxEntries)
    \/ this.processingSession < maxSession /\ StopProcessingCall

\* the retry timer and the clock
Timers ==
    \/ \E exists \in SUBSET DuePaths : RetryTimerFires(exists)
    \/ ClockAdvances

Next ==
    \/ Core(MaxSession, MaxFailuresInRow, MaxRetryEntries)
    \/ Timers

Spec == Init /\ [][Next]_vars

\* One waitForIdle() call observed at a time, in a provider whose files never
\* fail
NextIdle ==
    \/ Core(MaxIdleSession, 0, 0)
    \/ WaitForIdleCall
    \/ WaitForIdleReturn

SpecIdle == Init /\ [][NextIdle]_vars

\* A provider that is never stopped, whose files may fail up to
\* MaxRetryFailuresInRow times in a row
NextRetry ==
    \/ Steps(MaxRetryFailuresInRow, MaxRetryPaths)
    \/ Timers

SpecRetry == Init /\ [][NextRetry]_vars

\* A provider that is never stopped, whose batches take ChunkBatchSize files,
\* in chunks of one file (several chunks per batch) or in one chunk (several
\* jobs per chunk)
InitChunks ==
    \/ InitWith(ChunkBatchSize, SmallParallelLimit)
    \/ InitWith(ChunkBatchSize, ChunkBatchSize)

NextChunks ==
    \/ Steps(MaxFailuresInRow, MaxRetryPaths)
    \/ Timers

SpecChunks == InitChunks /\ [][NextChunks]_vars

\* A provider whose files never fail, whose settings are only replaced once
\* startProcessing has stored some, and in which every timer fires and every
\* processFile call, yield and database write settles
NextLive ==
    \/ \E files \in QueueFilesInputs : QueueFilesCall(files)
    \/ \E settings \in Settings : StartProcessingCall(settings)
    \/ \E settings \in Settings : this.currentBatchSettings # 0 /\ OnSettingsChanged(settings)
    \/ this.processingSession < MaxLiveSession /\ StopProcessingCall
    \/ \E needed \in SUBSET NextSlice : DebounceFires(needed)
    \/ \E needed \in SUBSET NextSlice : TickFires(needed)
    \/ \E b \in Slots : \E outcome \in ChunkOutcomes(b, 0, 0) : SettleChunk(b, outcome)
    \/ \E b \in Slots, shutdown \in BOOLEAN, rejected \in BOOLEAN :
          AfterYield(b, shutdown, rejected)
    \/ \E b \in Slots, ok \in BOOLEAN, rejected \in BOOLEAN : WriteSettles(b, ok, rejected)

FairLive ==
    /\ WF_vars(\E needed \in SUBSET NextSlice : DebounceFires(needed))
    /\ WF_vars(\E needed \in SUBSET NextSlice : TickFires(needed))
    /\ WF_vars(\E b \in Slots : \E outcome \in ChunkOutcomes(b, 0, 0) : SettleChunk(b, outcome))
    /\ WF_vars(\E b \in Slots, shutdown \in BOOLEAN, rejected \in BOOLEAN :
                  AfterYield(b, shutdown, rejected))
    /\ WF_vars(\E b \in Slots, ok \in BOOLEAN, rejected \in BOOLEAN : WriteSettles(b, ok, rejected))

SpecLive == Init /\ [][NextLive]_vars /\ FairLive

\* A provider whose batches take ChunkBatchSize files in chunks of one file,
\* stopped at most MaxCancelSession times; retries are registered but their
\* timer does not fire
InitCancel == InitWith(ChunkBatchSize, SmallParallelLimit)

NextCancel == Core(MaxCancelSession, MaxFailuresInRow, MaxRetryEntries)

SpecCancel == InitCancel /\ [][NextCancel]_vars

\* A provider that is never stopped and whose files never fail, with
\* MaxFifoFiles files and batches of ChunkBatchSize files in one chunk
FifoInputs == SeqsUpTo(FifoPaths, MaxFifoCallLen)

InitFifo == InitWith(ChunkBatchSize, ChunkBatchSize)

NextFifo ==
    \/ \E files \in FifoInputs : QueueFilesCall(files)
    \/ \E settings \in Settings : StartProcessingCall(settings)
    \/ \E needed \in SUBSET NextSlice : DebounceFires(needed)
    \/ \E needed \in SUBSET NextSlice : TickFires(needed)
    \/ \E b \in Slots : \E outcome \in ChunkOutcomes(b, 0, 0) : SettleChunk(b, outcome)
    \/ \E b \in Slots, shutdown \in BOOLEAN, rejected \in BOOLEAN :
          AfterYield(b, shutdown, rejected)
    \/ \E b \in Slots, ok \in BOOLEAN, rejected \in BOOLEAN : WriteSettles(b, ok, rejected)

SpecFifo == InitFifo /\ [][NextFifo]_vars

\* A provider that is never stopped, whose files are modified and whose
\* database records change while batches run; retries are registered but
\* their timer does not fire
NextMtime ==
    \/ Steps(MaxFailuresInRow, MaxRetryEntries)
    \/ \E p \in Paths : FileModified(p)
    \/ \E p \in Paths : \E fileData \in {NoFileData} \cup 1..MaxMtime :
          DatabaseChanges(p, fileData)

SpecMtime == Init /\ [][NextMtime]_vars

\* A provider that is never stopped and whose files never fail, whose
\* settings are replaced by startProcessing and onSettingsChanged while
\* batches of ChunkBatchSize files run in chunks of one file
ChangedSettings == 1..MaxChangedSettings

NextSettings ==
    \/ \E files \in QueueFilesInputs : QueueFilesCall(files)
    \/ \E settings \in ChangedSettings : StartProcessingCall(settings)
    \/ \E settings \in ChangedSettings : OnSettingsChanged(settings)
    \/ \E needed \in SUBSET NextSlice : DebounceFires(needed)
    \/ \E needed \in SUBSET NextSlice : TickFires(needed)
    \/ \E b \in Slots : \E outcome \in ChunkOutcomes(b, 0, 0) : SettleChunk(b, outcome)
    \/ \E b \in Slots, shutdown \in BOOLEAN, rejected \in BOOLEAN :
          AfterYield(b, shutdown, rejected)
    \/ \E b \in Slots, ok \in BOOLEAN, rejected \in BOOLEAN : WriteSettles(b, ok, rejected)

SpecSettings == InitCancel /\ [][NextSettings]_vars

----------------------------------------------------------------------------
(* Properties *)

Count(seq, p) == Cardinality({i \in 1..Len(seq) : seq[i] = p})

BatchesInFlight == {b \in Slots : InFlight(b)}

\* batch b's captured session is not the provider's session any more
Stale(b) == InFlight(b) /\ batches[b].session # this.processingSession

\* C1 as stated: while the provider is not stopped, queuedFiles,
\* processingFiles and dirtyFilesDuringProcessing are pairwise disjoint.
C1_PairwiseDisjoint ==
    ~this.stopped =>
        /\ this.queuedFiles \cap this.processingFiles = {}
        /\ this.queuedFiles \cap Range(this.dirtyFilesDuringProcessing) = {}
        /\ this.processingFiles \cap Range(this.dirtyFilesDuringProcessing) = {}

\* C1 amended: while the provider is not stopped, no path is both queued and
\* processing, and every dirty-during-processing path is a processing path
\* (so it is never queued).
C1_QueuedApartFromProcessing ==
    ~this.stopped =>
        /\ this.queuedFiles \cap this.processingFiles = {}
        /\ Range(this.dirtyFilesDuringProcessing) \subseteq this.processingFiles

\* one file queued, the other processing and enqueued again meanwhile
C1_Witness ==
    /\ ~this.stopped
    /\ this.queuedFiles # {}
    /\ this.processingFiles # {}
    /\ this.dirtyFilesDuringProcessing # <<>>

\* the fields C2 lists are the same before and after a step
ProviderUntouched ==
    /\ this'.queue = this.queue
    /\ this'.queuedFiles = this.queuedFiles
    /\ this'.processingFiles = this.processingFiles
    /\ this'.dirtyFilesDuringProcessing = this.dirtyFilesDuringProcessing
    /\ this'.retryState = this.retryState
    /\ this'.isProcessing = this.isProcessing
    /\ this'.queueDebounceTimer = this.queueDebounceTimer
    /\ this'.retryTimer = this.retryTimer
    /\ pendingTicks' = pendingTicks

\* C2: a step of a batch whose captured session is not the current one (its
\* result handling, its resumption after the yield, its finally block) leaves
\* queue, queuedFiles, processingFiles, dirtyFilesDuringProcessing,
\* retryState, isProcessing and every timer as they were.
C2_StaleBatchInert ==
    [][\A b \in Slots : (Stale(b) /\ batches'[b] # batches[b]) => ProviderUntouched]_vars

\* C3: the batched database write is only ever started by a batch whose
\* captured session is the provider's current session.
C3_NoStaleWrite ==
    [][\A b \in Slots :
          (batches[b].pc # "write" /\ batches'[b].pc = "write")
              => batches[b].session = this.processingSession]_vars

\* a batch from before a stop, with results staged, resumes after the restart
C3_Witness ==
    \E b \in Slots :
        /\ Stale(b) /\ ~this.stopped
        /\ batches[b].pc = "yield"
        /\ batches[b].processedMtimeUpdates # {}

\* C4: at most one processNextBatch invocation is between its entry guard and
\* its finally block.
C4_NoOverlap == Cardinality(BatchesInFlight) <= 1

\* C5: a pending waitForIdle does not resolve in the step in which the
\* awaited batch finishes and schedules the next batch.
C5_WaitsForChainedBatches ==
    [][(waiter.pc = "waiting" /\ pendingTicks' > pendingTicks) => waiter'.pc = "waiting"]_vars

\* C6: waitForIdle never rejects, and a call made while no batch is in
\* flight resolves at once.
C6_ImmediateAndNeverRejects ==
    /\ [](waiter.pc # "rejected")
    /\ [][(waiter.pc = "none" /\ waiter'.pc # "none" /\ BatchesInFlight = {})
             => waiter'.pc = "resolved"]_vars

\* a waitForIdle that resolved although the batch it awaited rejected
C6_Witness == waiter.pc = "resolved" /\ waiter.caught

\* C7: from any reachable state, two successive queueFiles([f]) calls for a
\* file that is not being processed leave exactly one job for f, the second
\* call adding nothing; and no queueFiles call adds a job for a path that is
\* in queuedFiles.
C7_EnqueuedOnce ==
    /\ \A f \in Paths :
          LET s1 == QueueFiles(this, <<f>>)
              s2 == QueueFiles(s1, <<f>>)
          IN  (~this.stopped /\ f \notin this.processingFiles)
                  => Count(s2.queue, f) = 1 /\ s2.queue = s1.queue
    /\ \A files \in QueueFilesInputs : \A p \in this.queuedFiles :
          Count(QueueFiles(this, files).queue, p) = Count(this.queue, p)

\* a queued file for which a further queueFiles call changes nothing
C7_Witness ==
    \E f \in Paths :
        /\ ~this.stopped /\ f \in this.queuedFiles /\ Count(this.queue, f) = 1
        /\ Len(this.queue) = 2
        /\ QueueFiles(this, <<f, f>>) = this

\* C8: queueFiles of a file that is being processed adds no job and records
\* the file once in dirtyFilesDuringProcessing; and when the batch processing
\* it completes in a session that is still current, the file has exactly one
\* job in the queue and is no longer dirty.
C8_DirtyRequeuedOnce ==
    /\ [](\A files \in QueueFilesInputs : \A p \in Range(files) \cap this.processingFiles :
            ~this.stopped =>
                LET s1 == QueueFiles(this, files)
                IN  /\ Count(s1.queue, p) = Count(this.queue, p)
                    /\ Count(s1.dirtyFilesDuringProcessing, p) = 1)
    /\ [][\A b \in Slots :
            \A p \in Range(batches[b].activeJobs) \cap Range(this.dirtyFilesDuringProcessing) :
                (InFlight(b) /\ batches'[b].pc = "free" /\ ~Cancelled(this, batches[b]))
                    => /\ Count(this'.queue, p) = 1
                       /\ p \notin Range(this'.dirtyFilesDuringProcessing)]_vars

\* a batch of the current session about to complete with one of its files
\* enqueued again meanwhile
C8_Witness ==
    \E b \in Slots :
        /\ batches[b].pc = "yield" /\ ~Cancelled(this, batches[b])
        /\ Range(batches[b].activeJobs) \cap Range(this.dirtyFilesDuringProcessing) # {}

\* C9: a stopProcessing step adds one to processingSession, sets stopped,
\* aborts the signal of every batch of the session it ends, leaves no
\* debounce or retry timer armed and no retry entry, and leaves isProcessing
\* false and the queue and the three tracking collections empty.
C9_StopPostcondition ==
    [][this'.processingSession # this.processingSession =>
          /\ this'.processingSession = this.processingSession + 1
          /\ this'.stopped
          /\ \A b \in Slots :
                (InFlight(b) /\ batches[b].session = this.processingSession)
                    => batches'[b].aborted
          /\ ~this'.queueDebounceTimer
          /\ ~this'.retryTimer.armed
          /\ this'.retryState = <<>>
          /\ ~this'.isProcessing
          /\ this'.queue = <<>>
          /\ this'.queuedFiles = {}
          /\ this'.processingFiles = {}
          /\ this'.dirtyFilesDuringProcessing = <<>>]_vars

\* C10 as stated: a stopProcessing call on a provider that is already stopped
\* changes nothing.
C10_SecondStopChangesNothing ==
    [][(this.stopped /\ this'.processingSession # this.processingSession)
          => (this' = this /\ batches' = batches)]_vars

\* C10 amended: a stopProcessing call on a provider that is already stopped
\* changes nothing but processingSession, which it increments.
C10_SecondStopOnlyCounts ==
    [][(this.stopped /\ this'.processingSession # this.processingSession)
          => /\ this' = [this EXCEPT !.processingSession = @ + 1]
             /\ UNCHANGED <<batches, pendingTicks, waiter>>]_vars

\* stopped twice with a batch still in flight
C10_Witness ==
    /\ this.stopped /\ this.processingSession = 2
    /\ BatchesInFlight # {}

\* C11: while the provider is stopped, queueFiles changes nothing, and no
\* step that leaves it stopped (a batch from before the stop resuming or
\* completing, a next-batch tick firing) starts a batch, adds a job or a
\* retry entry, arms the debounce or the retry timer, or schedules a tick.
C11_StoppedIsInert ==
    /\ [](this.stopped => \A files \in QueueFilesInputs : QueueFiles(this, files) = this)
    /\ [][(this.stopped /\ this'.stopped) =>
             /\ \A b \in Slots : InFlight(b)' => InFlight(b)
             /\ this'.queue = <<>> /\ this'.queuedFiles = {}
             /\ this'.retryState = <<>>
             /\ ~this'.queueDebounceTimer /\ ~this'.retryTimer.armed
             /\ ~this'.isProcessing
             /\ pendingTicks' <= pendingTicks]_vars

\* stopped with a batch from before the stop in flight and a next-batch tick
\* still pending
C11_Witness ==
    /\ this.stopped
    /\ BatchesInFlight # {}
    /\ pendingTicks > 0

\* batch b is suspended after its last chunk with results staged
StagedAfterLastChunk(b) ==
    /\ batches[b].pc = "yield"
    /\ batches[b].i + this.PARALLEL_LIMIT >= Len(batches[b].activeJobs)
    /\ batches[b].processedMtimeUpdates # {}

\* a job of batch b's chunk settles as processed in this step
Succeeds(b, p) ==
    /\ batches[b].pc = "chunk" /\ batches'[b].pc = "yield"
    /\ p \in Range(Chunk(batches[b]))
    /\ p \in batches'[b].processedMtimeUpdates

\* C12 as stated (provider never stopped): a success removes the path's retry
\* entry, and the batch that staged it goes on to the batched database write,
\* once.
C12_SuccessWrittenOnce ==
    [][\A b \in Slots :
          /\ \A p \in Paths : Succeeds(b, p) => ~RetryHas(this'.retryState, p)
          /\ (StagedAfterLastChunk(b) /\ batches'[b].pc # "yield") => batches'[b].pc = "write"
          /\ batches[b].pc = "write" => batches'[b].pc \in {"write", "free"}]_vars

\* C12 amended: a success removes the path's retry entry, and the batch that
\* staged it issues the batched database write, once, unless the host is
\* shutting down when the batch reaches the write.
C12_SuccessWrittenOnceUnlessShutdown ==
    /\ [](\A b \in Slots : StagedAfterLastChunk(b) =>
            WritesDatabase(this, [batches[b] EXCEPT !.i = @ + this.PARALLEL_LIMIT], FALSE))
    /\ [][\A b \in Slots :
            /\ \A p \in Paths : Succeeds(b, p) => ~RetryHas(this'.retryState, p)
            /\ batches[b].pc = "write" => batches'[b].pc \in {"write", "free"}]_vars

\* a file that has failed RETRY_MAX_ATTEMPTS times is being processed again
\* after its fifth retry fired
C12_Witness ==
    \E b \in Slots : \E p \in Range(Chunk(batches[b])) :
        /\ batches[b].pc = "chunk"
        /\ RetryHas(this.retryState, p)
        /\ RetryGet(this.retryState, p).attempts = RETRY_MAX_ATTEMPTS
        /\ RetryGet(this.retryState, p).nextRetryAt = RETRY_UNSCHEDULED_AT

\* a job of batch b's chunk settles as not processed in this step
Fails(b, p) ==
    /\ batches[b].pc = "chunk" /\ batches'[b].pc = "yield"
    /\ p \in Range(Chunk(batches[b]))
    /\ p \notin batches'[b].processedMtimeUpdates

\* C13 (provider never stopped): a failure of a path whose entry already
\* counts RETRY_MAX_ATTEMPTS failures removes the entry and schedules
\* nothing for the path; and the retry timer only ever re-enqueues a path
\* whose entry counts at most RETRY_MAX_ATTEMPTS failures.
C13_SixthFailureDrops ==
    [][/\ \A b \in Slots : \A p \in Paths :
            (/\ Fails(b, p)
             /\ RetryHas(this.retryState, p)
             /\ RetryGet(this.retryState, p).attempts = RETRY_MAX_ATTEMPTS)
                => ~RetryHas(this'.retryState, p)
       /\ \A p \in Paths :
            (/\ RetryHas(this.retryState, p) /\ RetryHas(this'.retryState, p)
             /\ RetryGet(this.retryState, p).nextRetryAt # RETRY_UNSCHEDULED_AT
             /\ RetryGet(this'.retryState, p).nextRetryAt = RETRY_UNSCHEDULED_AT)
                => /\ RetryGet(this'.retryState, p).attempts <= RETRY_MAX_ATTEMPTS
                   /\ RetryGet(this'.retryState, p).attempts = RetryGet(this.retryState, p).attempts
                   /\ p \in this'.queuedFiles \cup Range(this'.dirtyFilesDuringProcessing)]_vars

\* the fifth retry of a path has fired and its job is queued again, while
\* the other path is waiting for a retry of its own
C13_Witness ==
    \E p \in Paths : \E q \in Paths \ {p} :
        /\ p \in this.queuedFiles
        /\ RetryHas(this.retryState, p)
        /\ RetryGet(this.retryState, p).attempts = RETRY_MAX_ATTEMPTS
        /\ RetryGet(this.retryState, p).nextRetryAt = RETRY_UNSCHEDULED_AT
        /\ RetryHas(this.retryState, q)

\* C14: the failure that brings a path's entry to k attempts schedules its
\* retry min(1000 * 2^(k-1), 30000) ms ahead: 1000, 2000, 4000, 8000, 16000
\* for k = 1..5, each more than the one before and none above 30000.
C14_BackoffDelays ==
    [][\A b \in Slots : \A p \in Paths :
          (Fails(b, p) /\ RetryHas(this'.retryState, p)) =>
              LET k == RetryGet(this'.retryState, p).attempts
                  delay == RetryGet(this'.retryState, p).nextRetryAt - DateNow
              IN  /\ k \in 1..5
                  /\ delay = <<1000, 2000, 4000, 8000, 16000>>[k]
                  /\ delay <= 30000
                  /\ RetryHas(this.retryState, p) =>
                        /\ k = RetryGet(this.retryState, p).attempts + 1
                        /\ delay > <<1000, 2000, 4000, 8000, 16000>>[k - 1]]_vars

\* the fifth failure in a row has just scheduled its retry
C14_Witness ==
    \E p \in Paths :
        /\ RetryHas(this.retryState, p)
        /\ RetryGet(this.retryState, p).attempts = 5
        /\ RetryGet(this.retryState, p).nextRetryAt = DateNow + 16000

\* C15: retryState never holds two entries for one path, every entry's
\* attempts is in 1..RETRY_MAX_ATTEMPTS, and a failure that leaves an entry
\* for the path leaves it at one more than before (at 1 when there was none);
\* below RETRY_MAX_ATTEMPTS a failure always leaves an entry.
C15_OneEntryCountingByOne ==
    /\ [](/\ \A i, j \in 1..Len(this.retryState) :
                this.retryState[i].path = this.retryState[j].path => i = j
          /\ \A i \in 1..Len(this.retryState) :
                this.retryState[i].attempts \in 1..RETRY_MAX_ATTEMPTS)
    /\ [][\A b \in Slots : \A p \in Paths :
            Fails(b, p) =>
                LET before == FailuresInRow(this, p)
                IN  /\ RetryHas(this'.retryState, p) => FailuresInRow(this', p) = before + 1
                    /\ before < RETRY_MAX_ATTEMPTS => RetryHas(this'.retryState, p)]_vars

\* both paths have an entry, one of them at RETRY_MAX_ATTEMPTS
C15_Witness ==
    /\ Len(this.retryState) = 2
    /\ \E i \in 1..2 : this.retryState[i].attempts = RETRY_MAX_ATTEMPTS
    /\ \E i \in 1..2 : this.retryState[i].attempts = 1

\* the outcomes o with every exception replaced by a result that has
\* processed = false and no update
ThrowsAsNotProcessed(o) == [p \in DOMAIN o |-> IF o[p] = "throws" THEN "nothing" ELSE o[p]]

\* C16 (provider never stopped): for a chunk about to settle, an exception
\* of processFile has the effect of a result with processed = false (the
\* path gets a retry entry unless its attempts are exhausted, no
\* processed-mtime record is staged) and the results of the other jobs of the
\* chunk are staged all the same; a settling chunk always takes the batch to
\* the yield, never to its end; after the yield the batch starts its next
\* chunk if it has one; and nothing staged is lost while the batch runs.
C16_ThrowIsFailureBatchGoesOn ==
    /\ [](\A b \in Slots : batches[b].pc = "chunk" =>
            \A o \in [Range(Chunk(batches[b])) -> Outcomes] :
                LET chunk == Chunk(batches[b])
                    r == HandleResults(this, batches[b], chunk, o, DateNow)
                IN  /\ r = HandleResults(this, batches[b], chunk, ThrowsAsNotProcessed(o), DateNow)
                    /\ \A p \in DOMAIN o :
                          /\ o[p] = "throws" =>
                                /\ p \notin r.bt.processedMtimeUpdates
                                /\ p \notin r.bt.updates
                                /\ \/ RetryHas(r.s.retryState, p)
                                   \/ FailuresInRow(this, p) = RETRY_MAX_ATTEMPTS
                          /\ o[p] \in {"processedUpdate", "processed"} =>
                                p \in r.bt.processedMtimeUpdates
                          /\ o[p] \in {"processedUpdate", "update"} => p \in r.bt.updates)
    /\ [][\A b \in Slots :
            /\ (batches[b].pc = "chunk" /\ batches'[b].pc # "chunk")
                  => batches'[b].pc = "yield"
            /\ (/\ batches[b].pc = "yield" /\ batches'[b].pc # "yield"
                /\ batches[b].i + this.PARALLEL_LIMIT < Len(batches[b].activeJobs))
                  => batches'[b].pc = "chunk"
            /\ (InFlight(b) /\ batches'[b].pc # "free") =>
                  /\ batches'[b].activeJobs = batches[b].activeJobs
                  /\ batches[b].processedMtimeUpdates \subseteq batches'[b].processedMtimeUpdates
                  /\ batches[b].updates \subseteq batches'[b].updates]_vars

\* a batch of two chunks at its database write: the job of the first chunk
\* failed and waits for its retry, the job of the second chunk was processed
\* after it
C16_Witness ==
    \E b \in Slots :
        /\ batches[b].pc = "write"
        /\ this.PARALLEL_LIMIT = 1
        /\ Len(batches[b].activeJobs) = 2
        /\ batches[b].activeJobs[1] \notin batches[b].processedMtimeUpdates
        /\ RetryHas(this.retryState, batches[b].activeJobs[1])
        /\ batches[b].activeJobs[2] \in batches[b].processedMtimeUpdates

\* the slots in which this step puts a batch in flight
BatchesBegun == {b \in Slots : ~InFlight(b) /\ batches'[b].pc # "free"}

\* this step is the debounce timer's callback
DebounceCallbackRuns ==
    /\ this'.debounceTimeouts < this.debounceTimeouts
    /\ this'.processingSession = this.processingSession

\* C17: startProcessing(settings) clears stopped, stores the settings and
\* leaves exactly one debounce timeout pending, the one queueDebounceTimer
\* holds, changing nothing else; at most one debounce timeout is ever
\* pending; and the timer's callback takes one slice from the queue for one
\* batch if the provider is not stopped, not processing and the queue is not
\* empty, and otherwise starts no batch and leaves the queue alone.
C17_OneDebounceOneBatch ==
    /\ [](/\ this.debounceTimeouts \in {0, 1}
          /\ this.queueDebounceTimer <=> this.debounceTimeouts = 1
          /\ \A settings \in Settings :
                StartProcessing(this, settings) =
                    [this EXCEPT !.stopped = FALSE,
                                 !.currentBatchSettings = settings,
                                 !.queueDebounceTimer = TRUE,
                                 !.debounceTimeouts = 1])
    /\ [][DebounceCallbackRuns =>
            IF ~this.stopped /\ ~this.isProcessing /\ Len(this.queue) > 0
            THEN /\ Cardinality(BatchesBegun) <= 1
                 /\ Len(this'.queue) = Len(this.queue) - Len(Slice(this.queue, 0, this.QUEUE_BATCH_SIZE))
                 /\ \A b \in BatchesBegun :
                       /\ Range(batches'[b].activeJobs) \subseteq NextSlice
                       /\ this'.isProcessing
                 /\ BatchesBegun = {} => ~this'.isProcessing
            ELSE /\ BatchesBegun = {}
                 /\ this'.queue = this.queue
                 /\ this'.isProcessing = this.isProcessing]_vars

\* the debounce timer is pending and its callback would begin a batch, with
\* a batch from before a stop still in flight
C17_Witness ==
    /\ this.queueDebounceTimer
    /\ ~this.stopped /\ ~this.isProcessing /\ Len(this.queue) > 0
    /\ BatchesInFlight # {}

\* C18: a queueFiles call arms the debounce timer exactly when it appends a
\* job while the provider has settings, is not processing and has no debounce
\* timer pending; every other call leaves the timer as it was.
C18_QueueFilesArmsWhenIdle ==
    \A files \in QueueFilesInputs :
        LET s1 == QueueFiles(this, files)
        IN  IF /\ Len(s1.queue) > Len(this.queue)
               /\ this.currentBatchSettings # 0
               /\ ~this.isProcessing
               /\ ~this.queueDebounceTimer
            THEN s1.queueDebounceTimer /\ s1.debounceTimeouts = 1
            ELSE /\ s1.queueDebounceTimer = this.queueDebounceTimer
                 /\ s1.debounceTimeouts = this.debounceTimeouts

\* an idle provider with settings and no timer pending, for which a
\* queueFiles call appends a job and arms the timer, and another call (of a
\* file that is queued or being processed) appends none and does not
C18_Witness ==
    /\ ~this.stopped /\ this.currentBatchSettings # 0
    /\ ~this.isProcessing /\ ~this.queueDebounceTimer
    /\ \E f \in Paths :
          /\ Len(QueueFiles(this, <<f>>).queue) > Len(this.queue)
          /\ QueueFiles(this, <<f>>).queueDebounceTimer
    /\ \E f \in Paths :
          /\ QueueFiles(this, <<f>>).queue = this.queue
          /\ ~QueueFiles(this, <<f>>).queueDebounceTimer

\* startProcessing has been called and stopProcessing has not been since (in
\* SpecLive the settings are null until startProcessing stores some)
Started == ~this.stopped /\ this.currentBatchSettings # 0

\* a batch of the current session is in flight and has not been aborted
CurrentBatchRunning ==
    \E b \in Slots : InFlight(b) /\ ~Cancelled(this, batches[b])

\* C19: once started, a queue that is not empty always has the debounce
\* timer, a next-batch tick or a running batch of the current session ahead
\* of it; a batch of the current session that completes with the queue not
\* empty schedules the next batch; and every queued job is eventually taken
\* from the queue.
C19_QueuedJobsAreTaken ==
    /\ []((Started /\ this.queue # <<>>) =>
             \/ this.queueDebounceTimer
             \/ pendingTicks > 0
             \/ CurrentBatchRunning)
    /\ [][\A b \in Slots :
            (/\ InFlight(b) /\ batches'[b].pc = "free"
             /\ ~Cancelled(this, batches[b])
             /\ this'.queue # <<>>)
                => pendingTicks' = pendingTicks + 1]_vars
    /\ \A p \in Paths :
          (Started /\ p \in Range(this.queue)) ~> (p \notin Range(this.queue))

\* started, both files queued, no batch running, no debounce timer: only the
\* next-batch tick of the batch that just completed is ahead of the queue
C19_Witness ==
    /\ Started
    /\ Len(this.queue) = 2
    /\ ~this.queueDebounceTimer
    /\ BatchesInFlight = {}
    /\ pendingTicks > 0

\* batch b as it resumes after the yield: the loop index moved on
Resumed(b) == [batches[b] EXCEPT !.i = @ + this.PARALLEL_LIMIT]

\* C20: a batch starts the batched database write from nowhere but the yield
\* after its last chunk, with an update or a processed-mtime record staged
\* and the provider neither stopped nor in another session nor the batch
\* aborted; the write guard is false whenever the host is shutting down;
\* and a batch that has started its write can only complete.
C20_OneGuardedWrite ==
    /\ [](\A b \in Slots : batches[b].pc = "yield" =>
            \A shutdown \in BOOLEAN :
                WritesDatabase(this, Resumed(b), shutdown) <=>
                    /\ batches[b].updates # {} \/ batches[b].processedMtimeUpdates # {}
                    /\ ~this.stopped
                    /\ ~batches[b].aborted
                    /\ this.processingSession = batches[b].session
                    /\ ~shutdown)
    /\ [][\A b \in Slots :
            /\ (batches[b].pc # "write" /\ batches'[b].pc = "write") =>
                  /\ batches[b].pc = "yield"
                  /\ batches'[b].i >= Len(batches[b].activeJobs)
                  /\ WritesDatabase(this, Resumed(b), FALSE)
            /\ (/\ batches[b].pc = "yield" /\ batches'[b].pc # "yield"
                /\ ~WritesDatabase(this, Resumed(b), FALSE))
                  => batches'[b].pc \in {"chunk", "free"}
            /\ batches[b].pc = "write" => batches'[b].pc \in {"write", "free"}]_vars

\* a batch of two chunks in its one database write, both chunks finished
\* and a result staged, while an earlier batch that was stopped is still
\* suspended and will not write
C20_Witness ==
    \E b, stale \in Slots :
        /\ batches[b].pc = "write"
        /\ Len(batches[b].activeJobs) = 2 /\ batches[b].i >= 2
        /\ batches[b].updates # {} \/ batches[b].processedMtimeUpdates # {}
        /\ batches[stale].pc = "yield" /\ batches[stale].aborted
        /\ batches[stale].processedMtimeUpdates # {}

\* this step is a debounce or next-batch callback that takes a slice off the
\* queue, needsProcessing returning true for the paths in needed
TakesSlice(needed) ==
    /\ DebounceFires(needed) \/ TickFires(needed)
    /\ Len(this'.queue) < Len(this.queue)

\* C21: when a batch takes its slice, every job of the slice for which
\* needsProcessing returns false leaves the queue and queuedFiles, is not
\* added to processingFiles, is not among the jobs of the batch that begins
\* (whose staging starts empty), and the step changes no retry entry; and a
\* batch in flight only ever stages results for its own active jobs, the
\* only jobs processFile is called for.
C21_UnneededDroppedSilently ==
    /\ [](\A b \in Slots : InFlight(b) =>
            /\ Range(Chunk(batches[b])) \subseteq Range(batches[b].activeJobs)
            /\ batches[b].updates \cup batches[b].processedMtimeUpdates
                  \subseteq Range(batches[b].activeJobs))
    /\ [][\A needed \in SUBSET NextSlice : TakesSlice(needed) =>
            /\ this'.retryState = this.retryState /\ this'.retryTimer = this.retryTimer
            /\ \A b \in BatchesBegun :
                  batches'[b].updates = {} /\ batches'[b].processedMtimeUpdates = {}
            /\ \A p \in NextSlice \ needed :
                  /\ p \notin Range(this'.queue)
                  /\ p \notin this'.queuedFiles
                  /\ p \in this'.processingFiles => p \in this.processingFiles
                  /\ \A b \in BatchesBegun : p \notin Range(batches'[b].activeJobs)]_vars

\* a batch in flight that took both files off the queue and kept one: the
\* other was dropped, is in none of the tracking sets and has a retry entry
\* from an earlier failure that nothing will fire or remove
C21_Witness ==
    \E b \in Slots : \E p \in Paths :
        /\ batches[b].pc = "chunk"
        /\ Len(batches[b].activeJobs) = 1
        /\ p \notin Range(batches[b].activeJobs)
        /\ p \notin this.queuedFiles \cup this.processingFiles
        /\ RetryHas(this.retryState, p)
        /\ RetryGet(this.retryState, p).nextRetryAt = RETRY_UNSCHEDULED_AT

\* C22: a batch enters a chunk (its first one when it begins, a further one
\* when it resumes after the yield) only while the provider is not stopped,
\* its signal is not aborted and its session is the current one; a
\* stopProcessing step leaves every batch in flight with a session that is
\* no longer current; and a batch whose session is no longer current never
\* enters a chunk again, whether or not startProcessing has been called
\* meanwhile: suspended in a chunk it can only go to the yield, and from the
\* yield only to its end.
C22_NoChunkAfterStop ==
    /\ [](\A b \in Slots : batches[b].pc = "yield" =>
            (StartsChunk(this, Resumed(b)) =>
                /\ ~this.stopped /\ ~batches[b].aborted
                /\ batches[b].session = this.processingSession))
    /\ [][\A b \in Slots :
            /\ (batches[b].pc # "chunk" /\ batches'[b].pc = "chunk") =>
                  /\ ~Cancelled(this, batches'[b])
                  /\ ~Cancelled(this', batches'[b])
            /\ (InFlight(b) /\ this'.processingSession # this.processingSession) =>
                  Stale(b)'
            /\ Stale(b) =>
                  /\ batches[b].pc = "chunk" => batches'[b].pc \in {"chunk", "yield"}
                  /\ batches[b].pc = "yield" => batches'[b].pc \in {"yield", "free"}
                  /\ batches'[b].pc # "free" => batches'[b].i = batches[b].i]_vars

\* a batch of two chunks suspended after its first chunk, stopped and
\* started again meanwhile: its second job will not be processed
C22_Witness ==
    \E b \in Slots :
        /\ Stale(b) /\ ~this.stopped /\ this.currentBatchSettings # 0
        /\ batches[b].pc = "yield"
        /\ batches[b].i + this.PARALLEL_LIMIT < Len(batches[b].activeJobs)

\* the retry timer is armed for the current session and its deadline has
\* come
RetryTimerDue ==
    /\ this.retryTimer.armed /\ DateNow >= this.retryTimer.at
    /\ ~this.stopped /\ this.retryTimer.session = this.processingSession

\* the paths of a sequence of retry entries, in order
PathsOf(rs) == [i \in 1..Len(rs) |-> rs[i].path]

\* C23: whenever the retry timer is due in the current session, its callback,
\* for every answer of the vault, leaves the entries that are not yet due as
\* they are, keeps each due entry whose path resolves to a file with the
\* same attempts and nextRetryAt = RETRY_UNSCHEDULED_AT, deletes each due
\* entry whose path does not resolve, and changes the rest of the provider
\* as one queueFiles call with the due resolving paths does (none of the
\* others is enqueued).
C23_FlushHandlesDueEntries ==
    RetryTimerDue =>
        \A exists \in SUBSET DuePaths :
            LET fired == [this EXCEPT !.retryTimer = NoTimer, !.retryTimeouts = @ - 1]
                after == FlushRetries(fired, this.retryTimer.session, DateNow, exists)
                due(e) == e.nextRetryAt <= DateNow
                retried == SelectSeq(this.retryState, LAMBDA e : due(e) /\ e.path \in exists)
                kept == SelectSeq(this.retryState, LAMBDA e : ~due(e) \/ e.path \in exists)
            IN  /\ after.retryState =
                      [i \in 1..Len(kept) |->
                          IF due(kept[i])
                          THEN [kept[i] EXCEPT !.nextRetryAt = RETRY_UNSCHEDULED_AT]
                          ELSE kept[i]]
                /\ [after EXCEPT !.retryState = <<>>, !.retryTimer = NoTimer,
                                 !.retryTimeouts = fired.retryTimeouts]
                      = [QueueFiles(fired, PathsOf(retried)) EXCEPT !.retryState = <<>>]
                /\ \A p \in Range(PathsOf(retried)) :
                      p \in after.queuedFiles \cup Range(after.dirtyFilesDuringProcessing)
                /\ \A p \in Paths \ Range(PathsOf(retried)) :
                      /\ Count(after.queue, p) = Count(this.queue, p)
                      /\ Count(after.dirtyFilesDuringProcessing, p)
                            = Count(this.dirtyFilesDuringProcessing, p)

\* the timer is due with one entry whose time has come and one scheduled
\* later
C23_Witness ==
    /\ RetryTimerDue
    /\ Len(this.retryState) = 2
    /\ \E i, j \in 1..2 :
          /\ this.retryState[i].nextRetryAt <= DateNow
          /\ this.retryState[j].nextRetryAt > DateNow
          /\ this.retryState[j].nextRetryAt # RETRY_UNSCHEDULED_AT

\* the nextRetryAt of the entries that wait for the timer
ScheduledRetries(s) ==
    {s.retryState[i].nextRetryAt : i \in 1..Len(s.retryState)} \ {RETRY_UNSCHEDULED_AT}

\* C24: the event loop never holds more than one retry timeout, the one
\* retryTimer refers to; and while the provider is not stopped, the timer is
\* armed exactly when some entry has a scheduled nextRetryAt, for the current
\* session and with the earliest scheduled nextRetryAt as its deadline (an
\* instant that has passed counts as now).
C24_OneTimerAtEarliestRetry ==
    /\ this.retryTimeouts \in {0, 1}
    /\ this.retryTimer.armed <=> this.retryTimeouts = 1
    /\ ~this.stopped =>
          /\ this.retryTimer.armed <=> ScheduledRetries(this) # {}
          /\ this.retryTimer.armed =>
                /\ this.retryTimer.session = this.processingSession
                /\ this.retryTimer.at \in ScheduledRetries(this)
                /\ \A at \in ScheduledRetries(this) : this.retryTimer.at <= at

\* two entries scheduled at different instants: the timer stands at the
\* earlier one, which is not the entry that was set last
C24_Witness ==
    /\ ~this.stopped /\ this.retryTimer.armed
    /\ Len(this.retryState) = 2
    /\ this.retryState[2].nextRetryAt # RETRY_UNSCHEDULED_AT
    /\ this.retryState[1].nextRetryAt < this.retryState[2].nextRetryAt
    /\ this.retryTimer.at = this.retryState[1].nextRetryAt

\* path p enters the queue in this step
Enqueued(p) == p \notin Range(this.queue) /\ p \in Range(this'.queue)

\* this step is an external queueFiles call with p among its files
ExternalQueueFiles(p) ==
    \E files \in QueueFilesInputs : p \in Range(files) /\ QueueFilesCall(files)

\* C25 as stated (provider never stopped): a path dropped for retry
\* exhaustion has no retry entry, enters the queue only in an external
\* queueFiles call, and its next failure leaves an entry with attempts = 1.
C25_OnlyExternalCallRequeues ==
    /\ [](\A p \in this.exhausted : ~RetryHas(this.retryState, p))
    /\ [][\A p \in this.exhausted :
            /\ Enqueued(p) => ExternalQueueFiles(p)
            /\ \A b \in Slots : Fails(b, p) =>
                  /\ RetryHas(this'.retryState, p)
                  /\ RetryGet(this'.retryState, p).attempts = 1]_vars

\* C25 amended: a path dropped for retry exhaustion has no retry entry (so
\* the retry timer never enqueues it), and enters the queue only in an
\* external queueFiles call or, when such a call came while the path was
\* being processed and marked it dirty, as the batch that processed it
\* completes; its next failure leaves an entry with attempts = 1.
C25_NoRetryOfItsOwnAfterDrop ==
    /\ [](\A p \in this.exhausted : ~RetryHas(this.retryState, p))
    /\ [][\A p \in this.exhausted :
            /\ Enqueued(p) =>
                  \/ ExternalQueueFiles(p)
                  \/ /\ p \in Range(this.dirtyFilesDuringProcessing)
                     /\ \E b \in Slots :
                           /\ p \in Range(batches[b].activeJobs)
                           /\ InFlight(b) /\ batches'[b].pc = "free"
            /\ \A b \in Slots : Fails(b, p) =>
                  /\ RetryHas(this'.retryState, p)
                  /\ RetryGet(this'.retryState, p).attempts = 1]_vars

\* a path that was dropped for retry exhaustion is being processed again
\* after an external queueFiles call: a failure now starts a fresh entry
C25_Witness ==
    \E b \in Slots : \E p \in this.exhausted :
        /\ batches[b].pc = "chunk" /\ p \in Range(Chunk(batches[b]))
        /\ p \notin Range(this.dirtyFilesDuringProcessing)

\* the batched database write of batch b settles in this step, fulfilled or
\* rejected
WriteEnds(b) == batches[b].pc = "write" /\ batches'[b].pc = "free"

\* C26: when the database write of a batch settles, rejected or not, the
\* batch's staged results are gone with it and no other batch changes; no
\* retry entry and no retry timer changes; no job enters the queue but a path
\* that was marked dirty; isProcessing is false; and if the batch's session is
\* still current, its paths leave processingFiles, every dirty path of the
\* batch is queued once and no longer dirty, every other dirty path is queued
\* or still dirty under the batch that processes it, and a next-batch
\* callback is scheduled when the queue is not empty.
C26_WriteFailureContained ==
    [][\A b \in Slots : WriteEnds(b) =>
          LET jobs == Range(batches[b].activeJobs)
              dirty == Range(this.dirtyFilesDuringProcessing)
          IN  /\ batches' = [batches EXCEPT ![b] = FreeBatch]
              /\ this'.retryState = this.retryState
              /\ this'.retryTimer = this.retryTimer
              /\ \A p \in Paths :
                    Count(this'.queue, p) > Count(this.queue, p) => p \in dirty
              /\ ~this'.isProcessing
              /\ this'.processingSession = this.processingSession
              /\ ~Cancelled(this, batches[b]) =>
                    /\ this'.processingFiles = this.processingFiles \ jobs
                    /\ \A p \in dirty \cap jobs :
                          /\ Count(this'.queue, p) = 1
                          /\ p \notin Range(this'.dirtyFilesDuringProcessing)
                    /\ \A p \in dirty \ jobs :
                          \/ p \in this'.queuedFiles
                          \/ /\ p \in Range(this'.dirtyFilesDuringProcessing)
                             /\ p \in this'.processingFiles
                    /\ this'.queue # <<>> => pendingTicks' = pendingTicks + 1]_vars

\* a batch of the current session in its database write, its file enqueued
\* again meanwhile and the other file waiting in the queue
C26_Witness ==
    \E b \in Slots :
        /\ batches[b].pc = "write" /\ ~Cancelled(this, batches[b])
        /\ Range(batches[b].activeJobs) \cap Range(this.dirtyFilesDuringProcessing) # {}
        /\ this.queue # <<>>
        /\ this.isProcessing

\* the jobs of batch b that have been handed to processFile so far
JobsStarted(b) ==
    Range(SubSeq(batches[b].activeJobs, 1,
                 Min(batches[b].i + this.PARALLEL_LIMIT, Len(batches[b].activeJobs))))

\* C27: a batch suspended in a chunk has between 1 and PARALLEL_LIMIT
\* processFile calls in flight, those of the jobs i+1 .. i+PARALLEL_LIMIT of
\* its active jobs, and otherwise none; nothing is staged for a job of a
\* later chunk; a chunk is left only for the yield, by the step that handles
\* its results (which stages results of that chunk only); and a chunk is
\* entered only from the yield of the chunk before it, PARALLEL_LIMIT jobs
\* further on.
C27_ChunksInSequence ==
    /\ [](\A b \in Slots : InFlight(b) =>
            /\ batches[b].i % this.PARALLEL_LIMIT = 0
            /\ batches[b].pc = "chunk" =>
                  /\ batches[b].i < Len(batches[b].activeJobs)
                  /\ Len(Chunk(batches[b])) \in 1..this.PARALLEL_LIMIT
                  /\ Chunk(batches[b]) =
                        SubSeq(batches[b].activeJobs, batches[b].i + 1,
                               Min(Len(batches[b].activeJobs),
                                   batches[b].i + this.PARALLEL_LIMIT))
            /\ batches[b].updates \cup batches[b].processedMtimeUpdates
                  \subseteq JobsStarted(b))
    /\ [][\A b \in Slots :
            /\ (batches[b].pc = "chunk" /\ batches'[b].pc # "chunk") =>
                  /\ batches'[b].pc = "yield"
                  /\ batches'[b].i = batches[b].i
                  /\ (batches'[b].updates \cup batches'[b].processedMtimeUpdates)
                        \ (batches[b].updates \cup batches[b].processedMtimeUpdates)
                        \subseteq Range(Chunk(batches[b]))
            /\ (batches[b].pc = "yield" /\ batches'[b].pc = "chunk") =>
                  batches'[b].i = batches[b].i + this.PARALLEL_LIMIT
            /\ (InFlight(b) /\ batches[b].pc # "yield" /\ batches'[b].pc = "chunk") =>
                  /\ batches[b].pc = "chunk"
                  /\ batches'[b].i = batches[b].i
                  /\ batches'[b].activeJobs = batches[b].activeJobs
            /\ (~InFlight(b) /\ batches'[b].pc # "free") =>
                  batches'[b].pc = "chunk" /\ batches'[b].i = 0]_vars

\* a batch of two jobs in its second chunk of one job, with the result of
\* the first chunk staged and the yield behind it
C27_Witness ==
    \E b \in Slots :
        /\ batches[b].pc = "chunk"
        /\ Len(batches[b].activeJobs) = 2
        /\ this.PARALLEL_LIMIT = 1 /\ batches[b].i = 1
        /\ batches[b].processedMtimeUpdates = {batches[b].activeJobs[1]}

\* the jobs a queueFiles(files) call creates: the files that are neither
\* being processed nor queued, each once, in argument order
NewJobsOf(s, files) ==
    LET fresh(i) == /\ files[i] \notin s.processingFiles \cup s.queuedFiles
                    /\ \A j \in 1..(i - 1) : files[j] # files[i]
        idx == SelectSeq([i \in 1..Len(files) |-> i], fresh)
    IN  [k \in 1..Len(idx) |-> files[idx[k]]]

\* C28: queueFiles on a provider that is not stopped leaves the queue as it
\* was with its new jobs appended in argument order; a callback that starts
\* a batch takes the first min(QUEUE_BATCH_SIZE, length) jobs off the head,
\* keeps the rest in order and gives the batch the needed ones of the slice
\* in queue order; and no step changes the queue in any other way than by
\* appending at the tail, by taking such a slice off the head, or by
\* emptying it in stopProcessing.
C28_FifoBoundedBatches ==
    /\ [](\A files \in FifoInputs :
            QueueFiles(this, files).queue =
                IF this.stopped THEN this.queue ELSE this.queue \o NewJobsOf(this, files))
    /\ [][LET n == Min(this.QUEUE_BATCH_SIZE, Len(this.queue))
              rest == SubSeq(this.queue, n + 1, Len(this.queue))
          IN  /\ \A needed \in SUBSET NextSlice : TakesSlice(needed) =>
                    /\ this'.queue = rest
                    /\ \A b \in BatchesBegun :
                          batches'[b].activeJobs =
                              SelectSeq(SubSeq(this.queue, 1, n), LAMBDA p : p \in needed)
              /\ \/ this'.queue = rest
                 \/ this'.stopped /\ this'.queue = <<>>
                 \/ /\ Len(this'.queue) >= Len(this.queue)
                    /\ SubSeq(this'.queue, 1, Len(this.queue)) = this.queue]_vars

\* three jobs queued, not in the order of their paths, of which the next
\* batch will take two
C28_Witness ==
    /\ Len(this.queue) = 3
    /\ this.queue[1] > this.queue[2]
    /\ this.queueDebounceTimer /\ ~this.isProcessing
    /\ this.QUEUE_BATCH_SIZE = 2

\* C29: the record staged for a processed job carries the file mtime read
\* when the job's chunk was entered, before processFile was called, and the
\* provider processed-mtime the database held when the batch filtered its
\* slice (0 without a record); neither value changes while the batch runs,
\* whatever happens to the file or to the database meanwhile, so the staged
\* mtime is never later than the one read at the start.
C29_MtimeReadBeforeProcessing ==
    /\ [](\A b \in Slots : InFlight(b) =>
            /\ DOMAIN batches[b].stagedMtime = batches[b].processedMtimeUpdates
            /\ \A p \in batches[b].processedMtimeUpdates :
                  /\ batches[b].stagedMtime[p].mtime = batches[b].fileMtimeAtStart[p]
                  /\ batches[b].stagedMtime[p].expectedPreviousMtime
                        = batches[b].expectedProviderMtime[p]
                  /\ batches[b].stagedMtime[p].mtime <= this.fileMtime[p])
    /\ [][\A b \in Slots :
            /\ b \in BatchesBegun =>
                  \A p \in Range(batches'[b].activeJobs) :
                      batches'[b].expectedProviderMtime[p] =
                          IF this.dbMtime[p] = NoFileData THEN 0 ELSE this.dbMtime[p]
            /\ (batches[b].pc # "chunk" /\ batches'[b].pc = "chunk") =>
                  \A p \in Range(Chunk(batches'[b])) :
                      batches'[b].fileMtimeAtStart[p] = this.fileMtime[p]
            /\ \A p \in Paths : Succeeds(b, p) =>
                  /\ batches'[b].stagedMtime[p].mtime = batches[b].fileMtimeAtStart[p]
                  /\ batches'[b].stagedMtime[p].expectedPreviousMtime
                        = batches[b].expectedProviderMtime[p]
            /\ (InFlight(b) /\ batches'[b].pc # "free") =>
                  /\ batches'[b].expectedProviderMtime = batches[b].expectedProviderMtime
                  /\ \A p \in batches[b].processedMtimeUpdates :
                        batches'[b].stagedMtime[p] = batches[b].stagedMtime[p]
                  /\ (batches[b].pc = "chunk" /\ batches'[b].pc = "chunk") =>
                        batches'[b].fileMtimeAtStart = batches[b].fileMtimeAtStart
            /\ (this'.fileMtime # this.fileMtime \/ this'.dbMtime # this.dbMtime) =>
                  batches' = batches]_vars

\* a processed job's record is staged with the mtime from before a
\* modification that came while the batch was running, and with the
\* processed-mtime of a database record that has changed since
C29_Witness ==
    \E b \in Slots : \E p \in batches[b].processedMtimeUpdates :
        /\ batches[b].pc = "write"
        /\ batches[b].stagedMtime[p].mtime < this.fileMtime[p]
        /\ batches[b].stagedMtime[p].expectedPreviousMtime > 0
        /\ batches[b].stagedMtime[p].expectedPreviousMtime # this.dbMtime[p]

\* C30: processingSession starts at 0 and never decreases; stopProcessing
\* adds exactly 1 to it; every step that changes it is a stopProcessing call;
\* and queueFiles, startProcessing, the retry timer's callback and the steps
\* of a batch leave it as it is.
C30_SessionCountsStops ==
    /\ [](/\ this.processingSession >= 0
          /\ StopProcessing(this).processingSession = this.processingSession + 1
          /\ \A files \in QueueFilesInputs :
                QueueFiles(this, files).processingSession = this.processingSession
          /\ \A settings \in Settings :
                StartProcessing(this, settings).processingSession = this.processingSession
          /\ \A exists \in SUBSET DuePaths :
                FlushRetries(this, this.retryTimer.session, DateNow, exists).processingSession
                    = this.processingSession)
    /\ [][/\ this'.processingSession >= this.processingSession
          /\ this'.processingSession # this.processingSession =>
                /\ this' = StopProcessing(this)
                /\ batches' = AbortSignals(this, batches)
                /\ UNCHANGED <<pendingTicks, waiter>>
          /\ (\/ \E files \in QueueFilesInputs : QueueFilesCall(files)
              \/ \E settings \in Settings :
                    StartProcessingCall(settings) \/ OnSettingsChanged(settings)
              \/ \E needed \in SUBSET NextSlice : DebounceFires(needed) \/ TickFires(needed)
              \/ \E exists \in SUBSET DuePaths : RetryTimerFires(exists)
              \/ BatchesBegun # {}
              \/ \E b \in Slots : InFlight(b) /\ batches'[b].pc # batches[b].pc)
                => this'.processingSession = this.processingSession]_vars

\* started again after the second stop, with work queued, the debounce
\* timer pending and a batch from an earlier session still in flight
C30_Witness ==
    /\ this.processingSession = 2 /\ ~this.stopped
    /\ this.queue # <<>> /\ this.queueDebounceTimer
    /\ \E b \in Slots : InFlight(b) /\ batches[b].session < 2

\* the retry entries and the retry timer are the same before and after a step
RetriesUntouched ==
    /\ this'.retryState = this.retryState
    /\ this'.retryTimer = this.retryTimer
    /\ this'.retryTimeouts = this.retryTimeouts

\* C31: a step of a batch whose captured session is not the current one (the
\* handling of its results, processed or failed, its resumption after the
\* yield, its write, its finally block) leaves retryState and the retry timer
\* as they were.
C31_StaleBatchLeavesRetries ==
    [][\A b \in Slots : (Stale(b) /\ batches'[b] # batches[b]) => RetriesUntouched]_vars

\* a batch from before the stop has handled a processed result for a path
\* that has a retry entry in the new session
C31_Witness ==
    \E b \in Slots :
        /\ Stale(b) /\ ~this.stopped
        /\ batches[b].pc = "yield"
        /\ \E p \in batches[b].processedMtimeUpdates : RetryHas(this.retryState, p)

\* the batches in flight that captured the provider's current session
CurrentBatches == {b \in Slots : InFlight(b) /\ batches[b].session = this.processingSession}

\* C32: at most one batch of the current session is in flight, and no step in
\* which a batch of an earlier session completes turns isProcessing from true
\* to false while a batch of the current session is in flight.
C32_OneCurrentBatch ==
    /\ [](Cardinality(CurrentBatches) <= 1)
    /\ [][\A b \in Slots :
            (Stale(b) /\ batches'[b].pc = "free" /\ CurrentBatches # {})
                => (this.isProcessing => this'.isProcessing)]_vars

\* the batches with a processFile call for p that has not settled
Extracting(p) == {b \in Slots : batches[b].pc = "chunk" /\ p \in Range(Chunk(batches[b]))}

\* C33: no path has two processFile calls in flight at the same time.
C33_OneExtractionPerPath == \A p \in Paths : Cardinality(Extracting(p)) <= 1

\* this step is a debounce or next-batch callback whose processNextBatch call
\* passes the entry guard: a batch begins
BeginsBatch(needed) ==
    /\ DebounceFires(needed) \/ TickFires(needed)
    /\ ~this.stopped /\ ~this.isProcessing
    /\ Len(this.queue) > 0 /\ this.currentBatchSettings # 0

\* C34: once stopProcessing has run, a batch only begins in or after the
\* callback of a debounce timer armed since (stopProcessing cancels the
\* pending timer and only startProcessing arms one while stopped): a
\* next-batch callback left from before the stop begins no batch.
C34_RestartWaitsForDebounce ==
    [][\A needed \in SUBSET NextSlice : BeginsBatch(needed) => this'.debouncedSinceStop]_vars

\* C35: while a batch of the current session is in flight activeBatchPromise
\* is that batch's promise (a runProcessNextBatch call that returns at the
\* entry guard leaves it alone), and no waitForIdle call resolves in a step
\* that leaves such a batch in flight.
C35_IdleMeansNoCurrentBatch ==
    /\ [](\A b \in CurrentBatches : this.activeBatchPromise = b)
    /\ [][(waiter.pc # "resolved" /\ waiter'.pc = "resolved")
             => \A b \in Slots :
                   batches'[b].pc = "free" \/ batches'[b].session # this'.processingSession]_vars

\* the paths with work pending: queued, processing or dirty during processing
PendingWork(s) ==
    s.queuedFiles \cup s.processingFiles \cup Range(s.dirtyFilesDuringProcessing)

\* C36: every retry entry whose nextRetryAt is RETRY_UNSCHEDULED_AT belongs to
\* a path that is queued, processing or dirty during processing.
C36_UnscheduledEntryHasWork ==
    \A i \in 1..Len(this.retryState) :
        this.retryState[i].nextRetryAt = RETRY_UNSCHEDULED_AT
            => this.retryState[i].path \in PendingWork(this)

\* C37: queuedFiles is exactly the set of the paths of the jobs in queue, and
\* no path has two jobs in queue.
C37_QueuedFilesMirrorsQueue ==
    /\ this.queuedFiles = Range(this.queue)
    /\ \A p \in Range(this.queue) : Count(this.queue, p) = 1

\* after a stop and a restart, both files are queued, one of them put back by
\* flushRetries
C37_Witness ==
    /\ this.processingSession > 0
    /\ Len(this.queue) = 2
    /\ \E i \in 1..Len(this.retryState) :
          /\ this.retryState[i].nextRetryAt = RETRY_UNSCHEDULED_AT
          /\ this.retryState[i].path \in this.queuedFiles

\* C38: while no batch of the current session is in flight, processingFiles
\* and dirtyFilesDuringProcessing are empty.
C38_TrackingEmptyBetweenBatches ==
    CurrentBatches = {} =>
        /\ this.processingFiles = {}
        /\ this.dirtyFilesDuringProcessing = <<>>

\* a batch of the current session has completed and left a job in the queue
\* while a batch from before the stop is still in flight
C38_Witness ==
    /\ CurrentBatches = {} /\ BatchesInFlight # {}
    /\ ~this.stopped /\ this.abortController = SettledController
    /\ this.queue # <<>>
    /\ this.processingFiles = {}

\* every field of the provider but currentBatchSettings is the same before
\* and after a step, and so are the batches and the pending callbacks
OnlySettingsChange ==
    /\ [this' EXCEPT !.currentBatchSettings = this.currentBatchSettings] = this
    /\ batches' = batches
    /\ pendingTicks' = pendingTicks
    /\ waiter' = waiter

\* C39: a batch that begins captures currentBatchSettings (the settings its
\* needsProcessing calls get), keeps that snapshot while it is in flight and
\* hands it to every processFile call, whatever currentBatchSettings has
\* become; onSettingsChanged(settings) stores the new settings and changes
\* nothing else, and so does startProcessing as far as the batches in flight
\* are concerned.
C39_BatchKeepsItsSettings ==
    /\ [](\A b \in Slots : InFlight(b) =>
            batches[b].processFileSettings = batches[b].settings)
    /\ [][\A b \in Slots :
            /\ b \in BatchesBegun => batches'[b].settings = this.currentBatchSettings
            /\ (InFlight(b) /\ batches'[b].pc # "free")
                  => batches'[b].settings = batches[b].settings]_vars
    /\ [][\A settings \in ChangedSettings :
            /\ OnSettingsChanged(settings) =>
                  OnlySettingsChange /\ this'.currentBatchSettings = settings
            /\ StartProcessingCall(settings) =>
                  batches' = batches /\ this'.currentBatchSettings = settings]_vars

\* a batch calls processFile for its second file with the settings it
\* captured, after the provider's settings have been replaced
C39_Witness ==
    \E b \in Slots :
        /\ batches[b].pc = "chunk" /\ batches[b].i > 0
        /\ batches[b].settings # this.currentBatchSettings
        /\ batches[b].processFileSettings = batches[b].settings

=============================================================================
